---------------------------- MODULE Spec2Model ----------------------------
(***************************************************************************)
(* A model of the GPU-resource core of the renderer:                       *)
(*   - SharedUniformBuffer (stride computation and slot())                 *)
(*   - PipelineMatrixManager (mode indices, update() driven by Input)      *)
(*   - main(): scene setup, trash registration, frame loop, teardown       *)
(*   - the texture loaders (layout transitions, copies, fence)             *)
(*   - MeshInstance uniforms, the descriptor pool and the descriptor sets  *)
(*   - the API failures of the texture loaders                             *)
(*   - the scroll input of Input and OrbitControls                         *)
(*                                                                         *)
(* The specifications share the variables:                                 *)
(*   SpecBuffer   the SharedUniformBuffer class used on its own            *)
(*   SpecManager  the PipelineMatrixManager / Input classes used on their  *)
(*                own (any order of calls)                                 *)
(*   Spec         the program main()                                       *)
(*   SpecTexture  createTextureImages / createTextureCubeMap and the GPU   *)
(*   SpecScene    the scene setup of main() at the level of the bytes of   *)
(*                the shared uniform buffer and of the descriptor sets     *)
(*   SpecMatrix   the pipeline matrix of PipelineMatrixManager             *)
(*   SpecScroll   the scroll input over the frames of the loop             *)
(*   SpecLive     Spec with the fairness of the program's scheduling       *)
(***************************************************************************)
EXTENDS Integers, Sequences, FiniteSets, TLC

(***************************************************************************)
(* 64-bit unsigned arithmetic (VkDeviceSize, size_t).  A value is kept as  *)
(* four 16-bit limbs, least significant first, so that every operation     *)
(* wraps modulo 2^64 exactly as the machine does.                          *)
(***************************************************************************)
LimbBase == 2^16

LimbMax == LimbBase - 1

\* the 64-bit value of a small non-negative number n (n < 2^31)
U64(n) == <<n % LimbBase, (n \div LimbBase) % LimbBase, 0, 0>>

Zero64 == <<0, 0, 0, 0>>

\* 2^64 - 1
Max64 == <<LimbMax, LimbMax, LimbMax, LimbMax>>

\* a + b + cin : the 64-bit sum and the carry out of bit 63
AddLimbs(a, b, cin) ==
    LET s1 == a[1] + b[1] + cin
        s2 == a[2] + b[2] + (s1 \div LimbBase)
        s3 == a[3] + b[3] + (s2 \div LimbBase)
        s4 == a[4] + b[4] + (s3 \div LimbBase)
    IN  [sum   |-> <<s1 % LimbBase, s2 % LimbBase, s3 % LimbBase, s4 % LimbBase>>,
         carry |-> s4 \div LimbBase]

\* a + b modulo 2^64
Add64(a, b) == AddLimbs(a, b, 0).sum

\* TRUE iff a + b does not fit 64 bits
AddWraps(a, b) == AddLimbs(a, b, 0).carry # 0

\* a * k for a small multiplier k (a uint32 index or count, k < 2^15):
\* the 64-bit product and what was carried out of bit 63
MulLimbs(a, k) ==
    LET p1 == a[1] * k
        p2 == a[2] * k + (p1 \div LimbBase)
        p3 == a[3] * k + (p2 \div LimbBase)
        p4 == a[4] * k + (p3 \div LimbBase)
    IN  [prod  |-> <<p1 % LimbBase, p2 % LimbBase, p3 % LimbBase, p4 % LimbBase>>,
         carry |-> p4 \div LimbBase]

\* a * k modulo 2^64
Mul64(a, k) == MulLimbs(a, k).prod

\* TRUE iff a * k does not fit 64 bits
MulWraps(a, k) == MulLimbs(a, k).carry # 0

RECURSIVE BitAnd(_, _)
\* x & y on non-negative numbers
BitAnd(x, y) ==
    IF x = 0 \/ y = 0 THEN 0
    ELSE (x % 2) * (y % 2) + 2 * BitAnd(x \div 2, y \div 2)

\* a & b
And64(a, b) == <<BitAnd(a[1], b[1]), BitAnd(a[2], b[2]),
                 BitAnd(a[3], b[3]), BitAnd(a[4], b[4])>>

\* ~a
Not64(a) == <<LimbMax - a[1], LimbMax - a[2], LimbMax - a[3], LimbMax - a[4]>>

\* a - b modulo 2^64
Sub64(a, b) == AddLimbs(a, Not64(b), 1).sum

\* a < b
Lt64(a, b) ==
    \/ a[4] < b[4]
    \/ a[4] = b[4] /\ a[3] < b[3]
    \/ a[4] = b[4] /\ a[3] = b[3] /\ a[2] < b[2]
    \/ a[4] = b[4] /\ a[3] = b[3] /\ a[2] = b[2] /\ a[1] < b[1]

\* a <= b
Le64(a, b) == a = b \/ Lt64(a, b)

\* a % n for a small modulus n (0 < n < 2^15)
Mod64(a, n) ==
    LET r4 == a[4] % n
        r3 == (r4 * LimbBase + a[3]) % n
        r2 == (r3 * LimbBase + a[2]) % n
    IN  (r2 * LimbBase + a[1]) % n

\* the size_t value of a C int (sign extension of a negative number)
IntToSizeT(i) == IF i >= 0 THEN U64(i) ELSE Not64(U64(-(i + 1)))

(***************************************************************************)
(* Bounds of the model                                                     *)
(***************************************************************************)
\* element sizes 0..MaxElementSize are enumerated (beside the program's own
\* block size and sizes close to 2^64)
MaxElementSize == 9

\* alignments 1..MaxAlignment are enumerated (beside 64 and 256)
MaxAlignment == 8

\* element counts 0..MaxElementCount are enumerated (beside the program's 20)
MaxElementCount == 4

\* slot() is asked for the indices 0..MaxSlotIndex
MaxSlotIndex == 5

\* set_polygon_mode / set_culling_mode are called with the arguments
\* -MaxModeArg..MaxModeArg (beside INT_MIN and INT_MAX)
MaxModeArg == 7

\* the mesh instances a scene has
MaxInstances == 2

\* the key events GLFW delivers in one glfwPollEvents call
MaxEventsPerPoll == 2

\* the presses of one key over a run
MaxPresses == 1

\* the frames the GPU may still be working on
MaxFramesInFlight == 1

\* the names createTextureImages is called with
MaxNames == 2

\* the mip levels of a texture: the extents below 2^MaxMipLevels are
\* enumerated
MaxMipLevels == 3

\* the uniform blocks set_uniforms is called with
MaxBlocks == 2

\* the frames of the loop in which scroll events are followed
MaxScrollFrames == 3

\* the scroll events one glfwPollEvents call delivers
MaxScrollEvents == 2

(***************************************************************************)
(* Program constants                                                       *)
(***************************************************************************)
\* sizeof(MeshInstanceUniformBlock): vec4 color + mat4 modelMatrix
SizeofMeshInstanceUniformBlock == 80

\* the element count main() asks for
SceneElementCount == 20

\* a mutant of SceneInstanceCount: a scene of more instances than elements
SceneInstanceCount_TooMany == 21

\* the number of instances createScene() makes and main() registers
SceneInstanceCount == 5

\* the maxSets main() asks of createVkDescriptorPool; the descriptor count
\* it asks for is twice that
PoolMaxSets == 20

VARIABLES
    sub_state,        \* SharedUniformBuffer: "none" | "constructed" | "fatal"
    element_size,     \* SharedUniformBuffer::element_size
    element_stride,   \* SharedUniformBuffer::element_stride
    element_count,    \* the element_count the constructor was given
    alignment,        \* limits.minUniformBufferOffsetAlignment of the device
    buffer_bytes,     \* the size asked of vklCreateHostCoherentBufferWithBackingMemory
    last_slot,        \* the last UniformBufferSlot returned by slot(), with its index
    polygon_mode,     \* PipelineMatrixManager::polygon_mode
    culling_mode,     \* PipelineMatrixManager::culling_mode
    keys,             \* Input::_keys
    keysPrev,         \* Input::_keysPrev
    last_polygon_arg, \* history: the argument of the last set_polygon_mode call
    last_culling_arg, \* history: the argument of the last set_culling_mode call
    polygon_cycle,    \* history: the run of set_polygon_mode(current + 1) calls
    culling_cycle     \* history: the run of set_culling_mode(current + 1) calls

bufferVars == <<sub_state, element_size, element_stride, element_count,
                alignment, buffer_bytes, last_slot>>

managerVars == <<polygon_mode, culling_mode, last_polygon_arg, last_culling_arg,
                 polygon_cycle, culling_cycle>>

inputVars == <<keys, keysPrev>>

VARIABLES
    pc,                  \* the statement of main() that runs next
    run_headless,        \* cmdline_args.run_headless
    window_should_close, \* the flag glfwWindowShouldClose reads
    trash,               \* std::vector<std::shared_ptr<ITrash>> trash
    trash_index,         \* the position of the teardown loop in trash
    mesh_instances,      \* the mesh of every instance createScene returned
    instance_index,      \* the loop variable i of the registration loop, from 1
    created,             \* the disposable objects constructed so far
    destroy_calls,       \* how often destroy was called on each disposable
    gpu_live,            \* the GPU resources that exist
    uniform_write,       \* the latest CPU write to uniform buffers: the buffers
                         \* written and the submitted frames that had not
                         \* finished when they were written
    in_flight,           \* frames submitted that the GPU has not finished
    idle_confirmed,      \* vkDeviceWaitIdle returned and nothing was submitted since
    device_destroyed,    \* vkDestroyDevice has been called
    presses,             \* per key, the GLFW_PRESS events delivered so far
    advances             \* per cycle key, the steps update() has made so far

mainVars == <<pc, run_headless, window_should_close, trash, trash_index,
              mesh_instances, instance_index, created, destroy_calls,
              gpu_live, uniform_write, in_flight, idle_confirmed,
              device_destroyed, presses, advances>>

VARIABLES
    tex_pc,            \* the statement of the texture loader that runs next
    routine,           \* "images": createTextureImages, "cube": createTextureCubeMap
    names_count,       \* names.size()
    name_index,        \* the name (the face) the loop is at, from 1
    mip_levels,        \* mipLevels
    img_info,          \* img_info.extent: <<width, height>> of the file read last
    vk_result,         \* error: the VkResult a call of the loader reported last
    cmd_buffer,        \* the commands recorded into vk_cmd_buffer
    host_buffers,      \* the staging buffers created, as <<name, level>>
    destroyed_buffers, \* the staging buffers destroyed
    submitted,         \* vkQueueSubmit has been called
    gpu_pos,           \* the commands of cmd_buffer the GPU has executed
    fence_signalled,   \* the fence of the submission is signalled
    image_layout,      \* the layout of every <<image, layer, level>> on the GPU
    textures,            \* the images of the Textures the loader returns
    image_descriptors, \* the images an image descriptor was written for
    sampled            \* the images sampled by a submitted draw

textureVars == <<tex_pc, routine, names_count, name_index, mip_levels, img_info,
                 vk_result,
                 cmd_buffer, host_buffers, destroyed_buffers, submitted,
                 gpu_pos, fence_signalled, image_layout, textures,
                 image_descriptors, sampled>>

VARIABLES
    scene_pc,         \* the statement of the scene setup that runs next
    instances,        \* the MeshInstances createScene() has made
    scene_index,      \* the loop variable i of the registration loop
    uniform_memory,   \* the bytes written to the shared uniform buffer
    descriptor_pool,  \* the descriptor pool and what is allocated from it
    descriptor_sets,  \* the bindings of the allocated descriptor sets
    last_call,        \* history: the last call made on a MeshInstance
    last_set          \* history: per instance, the block of the last
                      \* set_uniforms call (the default block if none)

sceneVars == <<scene_pc, instances, scene_index, uniform_memory,
               descriptor_pool, descriptor_sets, last_call, last_set>>

VARIABLES
    matrix_pc,          \* PipelineMatrixManager: "new" | "building" |
                        \* "constructed" | "destroyed"
    matrix,             \* PipelineMatrixManager::matrix: the handle at [i][j]
    matrix_i,           \* the loop variable i of createVkPipelineMatrix
    matrix_j,           \* the loop variable j of createVkPipelineMatrix
    pipelines_created,  \* the parameters of every pipeline created, in order
    pipelines_destroyed,\* the handles given to vklDestroyGraphicsPipeline
    shader,             \* PipelineMatrixManager::shader
    scroll_pc,          \* the next statement of the frame: "update" | "poll" | "controls"
    scroll_frame,       \* the frames begun so far
    scrollDelta,        \* Input::_scrollDelta, <<x, y>>
    scrollNextDelta,    \* Input::_scrollNextDelta, <<x, y>>
    scroll_events,      \* the events delivered since the last Input::update()
    scroll_delivered,   \* the sum of the events delivered before the last update
    scroll_used,        \* the sum of what OrbitControls::update() has read
    distance            \* OrbitControls::distance, in tenths

matrixVars == <<matrix_pc, matrix, matrix_i, matrix_j, pipelines_created,
                pipelines_destroyed, shader>>

scrollVars == <<scroll_pc, scroll_frame, scrollDelta, scrollNextDelta,
                scroll_events, scroll_delivered, scroll_used, distance>>

extraVars == <<matrixVars, scrollVars>>

vars == <<bufferVars, managerVars, inputVars, mainVars, textureVars,
          sceneVars, extraVars>>

(***************************************************************************)
(* SharedUniformBuffer                                                     *)
(***************************************************************************)
NoSlot == [index |-> -1, offset |-> Zero64, size |-> Zero64]

\* 2^63 + 1: a size whose padded stride, taken four times, wraps to 256 bytes
HalfRangePlusOne == <<1, 0, 0, 2^15>>

\* the element sizes a caller may request (VkDeviceSize element_size)
ElementSizes ==
    {U64(n) : n \in 0..MaxElementSize}
    \cup {U64(SizeofMeshInstanceUniformBlock)}
    \cup {Sub64(Max64, U64(k)) : k \in 0..MaxAlignment}
    \cup {HalfRangePlusOne}

\* the values the device may report as minUniformBufferOffsetAlignment
Alignments == (1..MaxAlignment) \cup {64, 256}

\* the element counts a caller may request (uint32_t element_count)
ElementCounts == (0..MaxElementCount) \cup {SceneElementCount}

IsPowerOfTwo(n) == n > 0 /\ BitAnd(n, n - 1) = 0

\* a mutant of ElementStride: the "- 1" of the rounding is forgotten
ElementStride_NoMinusOne(size, align) ==
    And64(Add64(size, U64(align)), Not64(Sub64(U64(align), U64(1))))

\* a mutant of ElementStride: rounds down instead of up
ElementStride_RoundDown(size, align) ==
    And64(size, Not64(Sub64(U64(align), U64(1))))

\* (element_size + alignment - 1) & ~(alignment - 1)
ElementStride(size, align) ==
    And64(Sub64(Add64(size, U64(align)), U64(1)),
          Not64(Sub64(U64(align), U64(1))))

\* a mutant of slot: the slots are packed without the padding of the stride
slot_Packed(index) ==
    [index |-> index, offset |-> Mul64(element_size, index), size |-> element_size]

\* UniformBufferSlot{element_stride * index, element_size}
slot(index) ==
    [index |-> index, offset |-> Mul64(element_stride, index), size |-> element_size]

\* the constructor: the stride is computed, the sizes stored and the buffer
\* of element_count * element_stride bytes allocated
SharedUniformBuffer(size, align, count) ==
    /\ sub_state = "none"
    /\ alignment' = align
    /\ element_stride' = ElementStride(size, align)
    /\ element_size' = size
    /\ element_count' = count
    /\ buffer_bytes' = Mul64(ElementStride(size, align), count)
    /\ last_slot' = NoSlot

\* the allocation succeeded: the buffer exists
ConstructBuffer ==
    \E size \in ElementSizes, align \in Alignments, count \in ElementCounts :
        /\ SharedUniformBuffer(size, align, count)
        /\ sub_state' = "constructed"

\* the allocation failed: the framework exits the process
ConstructBufferFails ==
    \E size \in ElementSizes, align \in Alignments, count \in ElementCounts :
        /\ SharedUniformBuffer(size, align, count)
        /\ sub_state' = "fatal"

\* a caller asks for a slot; the index is not checked against element_count
QuerySlot ==
    \E index \in 0..MaxSlotIndex :
        /\ sub_state = "constructed"
        /\ last_slot' = slot(index)
        /\ UNCHANGED <<sub_state, element_size, element_stride, element_count,
                       alignment, buffer_bytes>>

(***************************************************************************)
(* Input                                                                   *)
(***************************************************************************)
\* the keys the program asks about: GLFW_KEY_F1, GLFW_KEY_F2, GLFW_KEY_ESCAPE
Keys == {"F1", "F2", "ESCAPE"}

\* the actions GLFW reports to the key callback
KeyActions == {"PRESS", "RELEASE", "REPEAT"}

\* a mutant of isKeyTap: the key state is asked for instead of its edge
isKeyTap_AsKeyDown(key) == keys[key]

\* isKeyTap / isKeyPress: _keys[key] && !_keysPrev[key]
isKeyTap(key) == keys[key] /\ ~keysPrev[key]

\* Input::update(): the current key states become the previous ones
Input_update == keysPrev' = keys /\ UNCHANGED keys

\* the key states after Input::onKey(): _keys[key] = action != GLFW_RELEASE
KeysAfterEvent(ks, key, action) == [ks EXCEPT ![key] = (action # "RELEASE")]

\* Input::onKey()
onKey(key, action) ==
    /\ keys' = KeysAfterEvent(keys, key, action)
    /\ UNCHANGED keysPrev

(***************************************************************************)
(* PipelineMatrixManager                                                   *)
(***************************************************************************)
polygon_modes == <<"FILL", "LINE">>

culling_modes == <<"NONE", "BACK", "FRONT">>

\* INT_MIN and INT_MAX of the int parameter
IntMin == -2147483647 - 1

IntMax == 2147483647

\* the arguments a caller may pass to set_polygon_mode / set_culling_mode
ModeArgs == ((-MaxModeArg)..MaxModeArg) \cup {IntMin, IntMax}

\* no call has been made yet
NoArg == [called |-> FALSE, arg |-> 0]

NoCycle == [start |-> 0, len |-> 0]

\* a mutant of WrapMode: the argument is stored as it is
WrapMode_NoWrap(mode, size) == mode

\* a mutant of WrapMode: the index is clamped to the axis instead of wrapped
WrapMode_Clamp(mode, size) ==
    IF mode < 0 THEN 0 ELSE IF mode >= size THEN size - 1 ELSE mode

\* (mode + modes.size()) % modes.size(): mode is converted to size_t, the sum
\* and the remainder are taken in 64-bit unsigned arithmetic
WrapMode(mode, size) == Mod64(Add64(IntToSizeT(mode), U64(size)), size)

\* the run of consecutive set-mode(current + 1) calls after a call with
\* argument mode, made when the index was current and leaving it at result
NextCycle(cycle, current, mode, result, size) ==
    IF mode # current + 1 THEN [start |-> result, len |-> 0]
    ELSE IF cycle.len < size THEN [start |-> cycle.start, len |-> cycle.len + 1]
    ELSE [start |-> current, len |-> 1]

\* PipelineMatrixManager::set_polygon_mode
set_polygon_mode(mode) ==
    /\ polygon_mode' = WrapMode(mode, Len(polygon_modes))
    /\ last_polygon_arg' = [called |-> TRUE, arg |-> mode]
    /\ polygon_cycle' = NextCycle(polygon_cycle, polygon_mode, mode,
                                  polygon_mode', Len(polygon_modes))

\* PipelineMatrixManager::set_culling_mode
set_culling_mode(mode) ==
    /\ culling_mode' = WrapMode(mode, Len(culling_modes))
    /\ last_culling_arg' = [called |-> TRUE, arg |-> mode]
    /\ culling_cycle' = NextCycle(culling_cycle, culling_mode, mode,
                                  culling_mode', Len(culling_modes))

\* PipelineMatrixManager::update
update ==
    /\ IF isKeyTap("F1")
         THEN set_polygon_mode(polygon_mode + 1)
         ELSE UNCHANGED <<polygon_mode, last_polygon_arg, polygon_cycle>>
    /\ IF isKeyTap("F2")
         THEN set_culling_mode(culling_mode + 1)
         ELSE UNCHANGED <<culling_mode, last_culling_arg, culling_cycle>>

\* PipelineMatrixManager::selected: the coordinates of matrix[polygon_mode][culling_mode]
selected == <<polygon_mode, culling_mode>>

\* the entries the pipeline matrix has
MatrixEntries == (0..(Len(polygon_modes) - 1)) \X (0..(Len(culling_modes) - 1))

(***************************************************************************)
(* PipelineMatrixManager: the pipeline matrix                              *)
(***************************************************************************)
\* enum Shader
Shaders == {"Phong", "Gouraud", "Box"}

\* a mutant of EntryParams: the rows are filled from the last polygon mode
EntryParams_Reversed(i, j) ==
    [polygon_mode |-> polygon_modes[Len(polygon_modes) - i],
     culling_mode |-> culling_modes[j + 1]]

\* params.polygon_mode = polygonModes[i]; params.culling_mode = cullingModes[j]
EntryParams(i, j) ==
    [polygon_mode |-> polygon_modes[i + 1],
     culling_mode |-> culling_modes[j + 1]]

\* a mutant of createVkPipeline: a pipeline made before is handed out again
createVkPipeline_Reused(made, params) ==
    IF made = << >> THEN 1 ELSE Len(made)

\* createVkPipeline: vklCreateGraphicsPipeline makes a new pipeline on every
\* call; its handle is the number of pipelines made so far
createVkPipeline(made, params) == Len(made) + 1

\* std::vector<VkPipeline>(cullingModes.size()): row i of null handles
NewRow(i) ==
    [e \in {i} \X (0..(Len(culling_modes) - 1)) |-> 0]

\* the constructor is entered: createVkPipelineMatrix begins
MatrixConstruct ==
    /\ matrix_pc = "new"
    /\ matrix' = << >>
    /\ matrix_i' = 0
    /\ matrix_j' = 0
    /\ matrix_pc' = "building"
    /\ UNCHANGED <<pipelines_created, pipelines_destroyed, shader>>
    /\ UNCHANGED managerVars

\* one round of the inner loop of createVkPipelineMatrix
MatrixCreateEntry ==
    /\ matrix_pc = "building"
    /\ matrix_i < Len(polygon_modes)
    /\ LET params == EntryParams(matrix_i, matrix_j)
           handle == createVkPipeline(pipelines_created, params)
           m == IF matrix_j = 0 THEN matrix @@ NewRow(matrix_i) ELSE matrix
       IN  /\ pipelines_created' = Append(pipelines_created, params)
           /\ matrix' = [m EXCEPT ![<<matrix_i, matrix_j>>] = handle]
    /\ IF matrix_j + 1 < Len(culling_modes)
         THEN /\ matrix_j' = matrix_j + 1
              /\ UNCHANGED matrix_i
         ELSE /\ matrix_j' = 0
              /\ matrix_i' = matrix_i + 1
    /\ UNCHANGED <<matrix_pc, pipelines_destroyed, shader>>
    /\ UNCHANGED managerVars

\* the outer loop ends: matrix = createVkPipelineMatrix(...), the
\* constructor returns
MatrixConstructed ==
    /\ matrix_pc = "building"
    /\ matrix_i >= Len(polygon_modes)
    /\ matrix_pc' = "constructed"
    /\ UNCHANGED <<matrix, matrix_i, matrix_j, pipelines_created,
                   pipelines_destroyed, shader>>
    /\ UNCHANGED managerVars

\* PipelineMatrixManager::destroy: destroyVkPipelineMatrix hands every
\* entry of the matrix to vklDestroyGraphicsPipeline
MatrixDestroy ==
    /\ matrix_pc = "constructed"
    /\ pipelines_destroyed' = {matrix[e] : e \in DOMAIN matrix}
    /\ matrix_pc' = "destroyed"
    /\ UNCHANGED <<matrix, matrix_i, matrix_j, pipelines_created, shader>>
    /\ UNCHANGED managerVars

\* PipelineMatrixManager::selected: matrix[polygon_mode][culling_mode]
SelectedPipeline == matrix[selected]

\* a mutant of set_shader: the modes are reset with the shading model
set_shader_ResetModes(s) ==
    /\ shader' = s
    /\ polygon_mode' = 0
    /\ culling_mode' = 0
    /\ UNCHANGED <<last_polygon_arg, last_culling_arg, polygon_cycle,
                   culling_cycle>>
    /\ UNCHANGED <<matrix_pc, matrix, matrix_i, matrix_j, pipelines_created,
                   pipelines_destroyed>>

\* PipelineMatrixManager::set_shader
set_shader(s) ==
    /\ shader' = s
    /\ UNCHANGED managerVars
    /\ UNCHANGED <<matrix_pc, matrix, matrix_i, matrix_j, pipelines_created,
                   pipelines_destroyed>>

\* a caller sets the polygon mode of the constructed manager
MatrixSetPolygonMode ==
    /\ matrix_pc = "constructed"
    /\ \E mode \in ModeArgs : set_polygon_mode(mode)
    /\ UNCHANGED <<culling_mode, last_culling_arg, culling_cycle>>
    /\ UNCHANGED matrixVars

\* a caller sets the culling mode of the constructed manager
MatrixSetCullingMode ==
    /\ matrix_pc = "constructed"
    /\ \E mode \in ModeArgs : set_culling_mode(mode)
    /\ UNCHANGED <<polygon_mode, last_polygon_arg, polygon_cycle>>
    /\ UNCHANGED matrixVars

\* pipelines->set_shader(i->get_shader()) in the mesh loop of main()
MatrixSetShader ==
    /\ matrix_pc = "constructed"
    /\ \E s \in Shaders : set_shader(s)

(***************************************************************************)
(* main(): setup, frame loop, teardown                                     *)
(***************************************************************************)
\* createTextureImages(..., {"wood_texture.dds", "tiles_diffuse.dds"})
NumTextures == 2

\* the objects main() puts on the trash list; each owns GPU resources that
\* its destroy() frees: the Camera its uniform buffer, the
\* PipelineMatrixManager every pipeline of the matrix, the
\* SharedUniformBuffer its buffer, a Texture its image and view, a Mesh its
\* vertex and index buffers
CameraObject == <<"camera", 0>>

PipelinesObject == <<"pipelines", 0>>

UniformBufferObject == <<"uniform_buffer", 0>>

TextureObjects == {<<"texture", t>> : t \in 1..NumTextures}

MeshObjects == {<<"mesh", m>> : m \in 1..MaxInstances}

Disposables ==
    {CameraObject, PipelinesObject, UniformBufferObject}
    \cup TextureObjects \cup MeshObjects

\* the GPU resources a disposable object creates in its constructor and
\* frees in its destroy()
Owned(d) ==
    IF d[1] = "camera" THEN {<<"camera_uniform_buffer", 0, 0>>}
    ELSE IF d[1] = "pipelines"
      THEN {<<"pipeline", e[1], e[2]>> : e \in MatrixEntries}
    ELSE IF d[1] = "uniform_buffer" THEN {<<"shared_uniform_buffer", 0, 0>>}
    ELSE IF d[1] = "texture"
      THEN {<<"image", d[2], 0>>, <<"image_view", d[2], 0>>}
    ELSE {<<"vertex_buffer", d[2], 0>>, <<"index_buffer", d[2], 0>>}

\* the results createScene() may have: instance i draws mesh scene[i]; the
\* meshes are numbered in the order of their first use, every mesh is used
\* by an instance, and a mesh may be used by more than one instance
Scenes ==
    {scene \in [1..MaxInstances -> 1..MaxInstances] :
        /\ scene[1] = 1
        /\ \A i \in 2..MaxInstances :
               \E j \in 1..(i - 1) : scene[i] <= scene[j] + 1}

\* minUniformBufferOffsetAlignment of the devices the program runs on: a
\* power of two, at most 256
DeviceAlignments == {a \in Alignments : IsPowerOfTwo(a) /\ a >= 64}

\* the key events one glfwPollEvents call may deliver when the keys are in
\* the states ks: a key that is up can be pressed, a key that is down can
\* repeat or be released
RECURSIVE EventBatches(_, _)
EventBatches(ks, n) ==
    IF n = 0 THEN {<< >>}
    ELSE {<< >>} \cup
         UNION {{<<e>> \o rest : rest \in
                     EventBatches(KeysAfterEvent(ks, e[1], e[2]), n - 1)} :
                e \in {ev \in Keys \X KeyActions :
                          (ev[2] = "PRESS") = ~ks[ev[1]]}}

\* the key states after onKey has been called for every event of the batch
RECURSIVE KeysAfterBatch(_, _)
KeysAfterBatch(ks, batch) ==
    IF batch = << >> THEN ks
    ELSE KeysAfterBatch(KeysAfterEvent(ks, Head(batch)[1], Head(batch)[2]),
                        Tail(batch))

\* the GLFW_PRESS events for key in the batch
PressesIn(batch, key) ==
    Cardinality({i \in 1..Len(batch) : batch[i] = <<key, "PRESS">>})

\* the order of the teardown statements of main()
TeardownOrder_DeviceFirst ==
    <<"wait_idle", "destroy_device", "destroy_descriptors", "trash_pass",
      "destroy_sampler", "destroy_framework", "terminate", "done">>

TeardownOrder ==
    <<"wait_idle", "destroy_descriptors", "trash_pass", "destroy_sampler",
      "destroy_framework", "destroy_device", "terminate", "done">>

\* the statement after step in the teardown
TeardownNext(step) ==
    TeardownOrder[(CHOOSE i \in 1..(Len(TeardownOrder) - 1) :
                       TeardownOrder[i] = step) + 1]

\* trash.push_back(mesh_instances[i]->mesh), left out
RegisterMesh_Forgotten(list, i) == list

\* trash.push_back(mesh_instances[i]->mesh)
RegisterMesh(list, i) == Append(list, <<"mesh", mesh_instances[i]>>)

\* no uniform buffer has been written yet
NoWrite == [buffers |-> {}, readers |-> 0]

\* vklCopyDataIntoHostCoherentBuffer on uniform buffers. Every submitted
\* frame binds the descriptor set of every instance, so it reads every
\* instance slot, the camera buffer and the shader-constant buffer
WriteUniforms(buffers) == [buffers |-> buffers, readers |-> in_flight]

\* the command line is parsed
MainParseArgs ==
    /\ pc = "start"
    /\ run_headless' \in BOOLEAN
    /\ pc' = "create_camera"
    /\ UNCHANGED <<window_should_close, trash, trash_index, mesh_instances,
                   instance_index, created, destroy_calls, in_flight,
                   idle_confirmed, device_destroyed, presses, advances>>
    /\ UNCHANGED <<bufferVars, managerVars, inputVars>>
    /\ UNCHANGED gpu_live
    /\ UNCHANGED <<textureVars, sceneVars, extraVars>>
    /\ UNCHANGED uniform_write

\* createCamera(); trash.push_back(camera); Input::init(window)
MainCreateCamera ==
    /\ pc = "create_camera"
    /\ created' = created \cup {CameraObject}
    /\ gpu_live' = gpu_live \cup Owned(CameraObject)
    /\ trash' = Append(trash, CameraObject)
    /\ keys' = [k \in Keys |-> FALSE]
    /\ keysPrev' = [k \in Keys |-> FALSE]
    /\ pc' = "create_pipelines"
    /\ UNCHANGED <<run_headless, window_should_close, trash_index,
                   mesh_instances, instance_index, destroy_calls, in_flight,
                   idle_confirmed, device_destroyed, presses, advances>>
    /\ UNCHANGED <<bufferVars, managerVars>>
    /\ UNCHANGED <<textureVars, sceneVars, extraVars>>
    /\ uniform_write' = WriteUniforms({"camera"})

\* createPipelineManager(): the matrix is built, then the modes are set from
\* the renderer settings; trash.push_back(pipelines)
MainCreatePipelines ==
    /\ pc = "create_pipelines"
    /\ \E as_wireframe \in BOOLEAN, with_backface_culling \in BOOLEAN :
           /\ IF as_wireframe
                THEN set_polygon_mode(1)
                ELSE UNCHANGED <<polygon_mode, last_polygon_arg, polygon_cycle>>
           /\ IF with_backface_culling
                THEN set_culling_mode(1)
                ELSE UNCHANGED <<culling_mode, last_culling_arg, culling_cycle>>
    /\ created' = created \cup {PipelinesObject}
    /\ gpu_live' = gpu_live \cup Owned(PipelinesObject)
    /\ trash' = Append(trash, PipelinesObject)
    /\ pc' = "create_uniform_buffer"
    /\ UNCHANGED <<run_headless, window_should_close, trash_index,
                   mesh_instances, instance_index, destroy_calls, in_flight,
                   idle_confirmed, device_destroyed, presses, advances>>
    /\ UNCHANGED <<bufferVars, inputVars>>
    /\ UNCHANGED <<textureVars, sceneVars, extraVars>>
    /\ UNCHANGED uniform_write

\* new SharedUniformBuffer(vk_physical_device, sizeof(MeshInstanceUniformBlock), 20);
\* trash.push_back(uniform_buffer)
MainCreateUniformBuffer ==
    /\ pc = "create_uniform_buffer"
    /\ \E align \in DeviceAlignments :
           SharedUniformBuffer(U64(SizeofMeshInstanceUniformBlock), align,
                               SceneElementCount)
    /\ sub_state' = "constructed"
    /\ created' = created \cup {UniformBufferObject}
    /\ gpu_live' = gpu_live \cup Owned(UniformBufferObject)
    /\ trash' = Append(trash, UniformBufferObject)
    /\ pc' = "create_textures"
    /\ UNCHANGED <<run_headless, window_should_close, trash_index,
                   mesh_instances, instance_index, destroy_calls, in_flight,
                   idle_confirmed, device_destroyed, presses, advances>>
    /\ UNCHANGED <<managerVars, inputVars>>
    /\ UNCHANGED <<textureVars, sceneVars, extraVars>>
    /\ UNCHANGED uniform_write

\* the allocation of the shared uniform buffer fails: the framework exits
\* the process
MainCreateUniformBufferFails ==
    /\ pc = "create_uniform_buffer"
    /\ \E align \in DeviceAlignments :
           SharedUniformBuffer(U64(SizeofMeshInstanceUniformBlock), align,
                               SceneElementCount)
    /\ sub_state' = "fatal"
    /\ pc' = "exited"
    /\ UNCHANGED <<run_headless, window_should_close, trash, trash_index,
                   mesh_instances, instance_index, created, destroy_calls,
                   in_flight, idle_confirmed, device_destroyed, presses,
                   advances>>
    /\ UNCHANGED <<managerVars, inputVars>>
    /\ UNCHANGED gpu_live
    /\ UNCHANGED <<textureVars, sceneVars, extraVars>>
    /\ UNCHANGED uniform_write

\* createTextureImages(); for every texture: trash.push_back(tex)
MainCreateTextures ==
    /\ pc = "create_textures"
    /\ created' = created \cup TextureObjects
    /\ gpu_live' = gpu_live \cup UNION {Owned(d) : d \in TextureObjects}
    /\ trash' = trash \o [t \in 1..NumTextures |-> <<"texture", t>>]
    /\ pc' = "create_scene"
    /\ UNCHANGED <<run_headless, window_should_close, trash_index,
                   mesh_instances, instance_index, destroy_calls, in_flight,
                   idle_confirmed, device_destroyed, presses, advances>>
    /\ UNCHANGED <<bufferVars, managerVars, inputVars>>
    /\ UNCHANGED <<textureVars, sceneVars, extraVars>>
    /\ UNCHANGED uniform_write

\* auto mesh_instances = createScene()
MainCreateScene ==
    /\ pc = "create_scene"
    /\ \E scene \in Scenes :
           /\ mesh_instances' = scene
           /\ created' = created \cup
                             {<<"mesh", scene[i]>> : i \in 1..MaxInstances}
           /\ gpu_live' = gpu_live \cup
                 UNION {Owned(<<"mesh", scene[i]>>) : i \in 1..MaxInstances}
    /\ instance_index' = 1
    /\ pc' = "register_instances"
    /\ UNCHANGED <<run_headless, window_should_close, trash, trash_index,
                   destroy_calls, in_flight, idle_confirmed, device_destroyed,
                   presses, advances>>
    /\ UNCHANGED <<bufferVars, managerVars, inputVars>>
    /\ UNCHANGED <<textureVars, sceneVars, extraVars>>
    /\ UNCHANGED uniform_write

\* one round of the loop over mesh_instances: init_uniforms(...,
\* uniform_buffer->slot(i)); trash.push_back(mesh_instances[i]->mesh)
MainRegisterInstance ==
    /\ pc = "register_instances"
    /\ instance_index <= Len(mesh_instances)
    /\ last_slot' = slot(instance_index - 1)
    /\ trash' = RegisterMesh(trash, instance_index)
    /\ instance_index' = instance_index + 1
    /\ UNCHANGED <<pc, run_headless, window_should_close, trash_index,
                   mesh_instances, created, destroy_calls, in_flight,
                   idle_confirmed, device_destroyed, presses, advances>>
    /\ UNCHANGED <<sub_state, element_size, element_stride, element_count,
                   alignment, buffer_bytes>>
    /\ UNCHANGED <<managerVars, inputVars>>
    /\ UNCHANGED gpu_live
    /\ UNCHANGED <<textureVars, sceneVars, extraVars>>
    /\ uniform_write' = WriteUniforms({"instance_slot", "camera"})

\* the loop over mesh_instances ends; vklEnablePipelineHotReloading()
MainRegisterDone ==
    /\ pc = "register_instances"
    /\ instance_index > Len(mesh_instances)
    /\ pc' = "loop_test"
    /\ UNCHANGED <<run_headless, window_should_close, trash, trash_index,
                   mesh_instances, instance_index, created, destroy_calls,
                   in_flight, idle_confirmed, device_destroyed, presses,
                   advances>>
    /\ UNCHANGED <<bufferVars, managerVars, inputVars>>
    /\ UNCHANGED gpu_live
    /\ UNCHANGED <<textureVars, sceneVars, extraVars>>
    /\ UNCHANGED uniform_write

\* a mutant of MainFrameBegin: the loop condition is not tested
MainFrameBegin_NoTest ==
    /\ pc = "loop_test"
    /\ Input_update
    /\ pc' = "poll_events"
    /\ UNCHANGED <<run_headless, window_should_close, trash, trash_index,
                   mesh_instances, instance_index, created, destroy_calls,
                   in_flight, idle_confirmed, device_destroyed, presses,
                   advances>>
    /\ UNCHANGED <<bufferVars, managerVars>>
    /\ UNCHANGED gpu_live
    /\ UNCHANGED <<textureVars, sceneVars, extraVars>>
    /\ UNCHANGED uniform_write

\* while (!glfwWindowShouldClose(window)) { input->update();
MainFrameBegin ==
    /\ pc = "loop_test"
    /\ ~window_should_close
    /\ Input_update
    /\ pc' = "poll_events"
    /\ UNCHANGED <<run_headless, window_should_close, trash, trash_index,
                   mesh_instances, instance_index, created, destroy_calls,
                   in_flight, idle_confirmed, device_destroyed, presses,
                   advances>>
    /\ UNCHANGED <<bufferVars, managerVars>>
    /\ UNCHANGED gpu_live
    /\ UNCHANGED <<textureVars, sceneVars, extraVars>>
    /\ UNCHANGED uniform_write

\* the loop condition is false: the frame loop is left
MainLoopExit ==
    /\ pc = "loop_test"
    /\ window_should_close
    /\ pc' = "wait_idle"
    /\ UNCHANGED <<run_headless, window_should_close, trash, trash_index,
                   mesh_instances, instance_index, created, destroy_calls,
                   in_flight, idle_confirmed, device_destroyed, presses,
                   advances>>
    /\ UNCHANGED <<bufferVars, managerVars, inputVars>>
    /\ UNCHANGED gpu_live
    /\ UNCHANGED <<textureVars, sceneVars, extraVars>>
    /\ UNCHANGED uniform_write

\* glfwPollEvents(): the key callback runs for every key event that arrived
\* since the last poll, in order; a close request sets the should-close flag
MainPollEvents ==
    /\ pc = "poll_events"
    /\ \E batch \in EventBatches(keys, MaxEventsPerPoll),
          close_requested \in BOOLEAN :
           /\ \A k \in Keys : presses[k] + PressesIn(batch, k) <= MaxPresses
           /\ keys' = KeysAfterBatch(keys, batch)
           /\ presses' = [k \in Keys |-> presses[k] + PressesIn(batch, k)]
           /\ window_should_close' = (window_should_close \/ close_requested)
    /\ pc' = "frame_update"
    /\ UNCHANGED <<run_headless, trash, trash_index, mesh_instances,
                   instance_index, created, destroy_calls, in_flight,
                   idle_confirmed, device_destroyed, advances>>
    /\ UNCHANGED <<bufferVars, managerVars, keysPrev>>
    /\ UNCHANGED gpu_live
    /\ UNCHANGED <<textureVars, sceneVars, extraVars>>
    /\ UNCHANGED uniform_write

\* if (input->isKeyPress(GLFW_KEY_ESCAPE)) glfwSetWindowShouldClose(window, GLFW_TRUE);
\* pipelines->update(); controls->update();
MainFrameUpdate ==
    /\ pc = "frame_update"
    /\ window_should_close' = (window_should_close \/ isKeyTap("ESCAPE"))
    /\ update
    /\ advances' =
           [advances EXCEPT
              !["F1"] = IF polygon_mode' = (polygon_mode + 1) % Len(polygon_modes)
                          THEN @ + 1 ELSE @,
              !["F2"] = IF culling_mode' = (culling_mode + 1) % Len(culling_modes)
                          THEN @ + 1 ELSE @]
    /\ pc' = "wait_swapchain"
    /\ UNCHANGED <<run_headless, trash, trash_index, mesh_instances,
                   instance_index, created, destroy_calls, in_flight,
                   idle_confirmed, device_destroyed, presses>>
    /\ UNCHANGED <<bufferVars, inputVars>>
    /\ UNCHANGED gpu_live
    /\ UNCHANGED <<textureVars, sceneVars, extraVars>>
    /\ uniform_write' = WriteUniforms({"camera"})

\* vklWaitForNextSwapchainImage(): returns when the GPU has finished with
\* the image the frame is going to use
MainWaitForNextSwapchainImage ==
    /\ pc = "wait_swapchain"
    /\ in_flight < MaxFramesInFlight
    /\ pc' = "record_and_present"
    /\ UNCHANGED <<run_headless, window_should_close, trash, trash_index,
                   mesh_instances, instance_index, created, destroy_calls,
                   in_flight, idle_confirmed, device_destroyed, presses,
                   advances>>
    /\ UNCHANGED <<bufferVars, managerVars, inputVars>>
    /\ UNCHANGED gpu_live
    /\ UNCHANGED <<textureVars, sceneVars, extraVars>>
    /\ UNCHANGED uniform_write

\* vklStartRecordingCommands(); the draw of every instance with the selected
\* pipeline; vklEndRecordingCommands(); vklPresentCurrentSwapchainImage():
\* the frame is submitted to the GPU; if (run_headless) { ...; break; }
MainRecordAndPresent ==
    /\ pc = "record_and_present"
    /\ in_flight' = in_flight + 1
    /\ idle_confirmed' = FALSE
    /\ pc' = IF run_headless THEN "wait_idle" ELSE "loop_test"
    /\ UNCHANGED <<run_headless, window_should_close, trash, trash_index,
                   mesh_instances, instance_index, created, destroy_calls,
                   device_destroyed, presses, advances>>
    /\ UNCHANGED <<bufferVars, managerVars, inputVars>>
    /\ UNCHANGED gpu_live
    /\ UNCHANGED <<textureVars, sceneVars, extraVars>>
    /\ UNCHANGED uniform_write

\* the GPU finishes the oldest frame it was given
GpuCompletes ==
    /\ in_flight > 0
    /\ in_flight' = in_flight - 1
    /\ UNCHANGED <<pc, run_headless, window_should_close, trash, trash_index,
                   mesh_instances, instance_index, created, destroy_calls,
                   idle_confirmed, device_destroyed, presses, advances>>
    /\ UNCHANGED <<bufferVars, managerVars, inputVars>>
    /\ UNCHANGED gpu_live
    /\ UNCHANGED <<textureVars, sceneVars, extraVars>>
    /\ UNCHANGED uniform_write

\* a mutant of MainWaitIdle: the call returns without waiting for the GPU
MainWaitIdle_NoWait ==
    /\ pc = "wait_idle"
    /\ idle_confirmed' = TRUE
    /\ trash_index' = 1
    /\ pc' = TeardownNext("wait_idle")
    /\ UNCHANGED <<run_headless, window_should_close, trash, mesh_instances,
                   instance_index, created, destroy_calls, in_flight,
                   device_destroyed, presses, advances>>
    /\ UNCHANGED <<bufferVars, managerVars, inputVars>>
    /\ UNCHANGED gpu_live
    /\ UNCHANGED <<textureVars, sceneVars, extraVars>>
    /\ UNCHANGED uniform_write

\* vkDeviceWaitIdle(vk_device): returns when the GPU has finished all work
MainWaitIdle ==
    /\ pc = "wait_idle"
    /\ in_flight = 0
    /\ idle_confirmed' = TRUE
    /\ trash_index' = 1
    /\ pc' = TeardownNext("wait_idle")
    /\ UNCHANGED <<run_headless, window_should_close, trash, mesh_instances,
                   instance_index, created, destroy_calls, in_flight,
                   device_destroyed, presses, advances>>
    /\ UNCHANGED <<bufferVars, managerVars, inputVars>>
    /\ UNCHANGED gpu_live
    /\ UNCHANGED <<textureVars, sceneVars, extraVars>>
    /\ UNCHANGED uniform_write

\* the descriptor set layout, the descriptor pool, the three host buffers
\* and the depth image are destroyed directly
MainDestroyDescriptors ==
    /\ pc = "destroy_descriptors"
    /\ pc' = TeardownNext("destroy_descriptors")
    /\ UNCHANGED <<run_headless, window_should_close, trash, trash_index,
                   mesh_instances, instance_index, created, destroy_calls,
                   in_flight, idle_confirmed, device_destroyed, presses,
                   advances>>
    /\ UNCHANGED <<bufferVars, managerVars, inputVars>>
    /\ UNCHANGED gpu_live
    /\ UNCHANGED <<textureVars, sceneVars, extraVars>>
    /\ UNCHANGED uniform_write

\* one round of for (auto &&i : trash) i->destroy(vk_device). Destroying an
\* object a second time frees buffers that are already freed, which is
\* undefined: the program goes on or it is aborted
MainTrashDestroy ==
    /\ pc = "trash_pass"
    /\ trash_index <= Len(trash)
    /\ destroy_calls' = [destroy_calls EXCEPT ![trash[trash_index]] = @ + 1]
    /\ gpu_live' = gpu_live \ Owned(trash[trash_index])
    /\ trash_index' = trash_index + 1
    /\ \/ pc' = pc
       \/ /\ destroy_calls[trash[trash_index]] > 0
          /\ pc' = "aborted"
    /\ UNCHANGED <<run_headless, window_should_close, trash, mesh_instances,
                   instance_index, created, in_flight, idle_confirmed,
                   device_destroyed, presses, advances>>
    /\ UNCHANGED <<bufferVars, managerVars, inputVars>>
    /\ UNCHANGED <<textureVars, sceneVars, extraVars>>
    /\ UNCHANGED uniform_write

\* the loop over trash ends
MainTrashDone ==
    /\ pc = "trash_pass"
    /\ trash_index > Len(trash)
    /\ pc' = TeardownNext("trash_pass")
    /\ UNCHANGED <<run_headless, window_should_close, trash, trash_index,
                   mesh_instances, instance_index, created, destroy_calls,
                   in_flight, idle_confirmed, device_destroyed, presses,
                   advances>>
    /\ UNCHANGED <<bufferVars, managerVars, inputVars>>
    /\ UNCHANGED gpu_live
    /\ UNCHANGED <<textureVars, sceneVars, extraVars>>
    /\ UNCHANGED uniform_write

\* vkDestroySampler(vk_device, sampler, nullptr)
MainDestroySampler ==
    /\ pc = "destroy_sampler"
    /\ pc' = TeardownNext("destroy_sampler")
    /\ UNCHANGED <<run_headless, window_should_close, trash, trash_index,
                   mesh_instances, instance_index, created, destroy_calls,
                   in_flight, idle_confirmed, device_destroyed, presses,
                   advances>>
    /\ UNCHANGED <<bufferVars, managerVars, inputVars>>
    /\ UNCHANGED gpu_live
    /\ UNCHANGED <<textureVars, sceneVars, extraVars>>
    /\ UNCHANGED uniform_write

\* gcgDestroyFramework(); vkDestroySwapchainKHR(vk_device, vk_swapchain, nullptr)
MainDestroyFramework ==
    /\ pc = "destroy_framework"
    /\ pc' = TeardownNext("destroy_framework")
    /\ UNCHANGED <<run_headless, window_should_close, trash, trash_index,
                   mesh_instances, instance_index, created, destroy_calls,
                   in_flight, idle_confirmed, device_destroyed, presses,
                   advances>>
    /\ UNCHANGED <<bufferVars, managerVars, inputVars>>
    /\ UNCHANGED gpu_live
    /\ UNCHANGED <<textureVars, sceneVars, extraVars>>
    /\ UNCHANGED uniform_write

\* vkDestroyDevice(vk_device, nullptr)
MainDestroyDevice ==
    /\ pc = "destroy_device"
    /\ device_destroyed' = TRUE
    /\ pc' = TeardownNext("destroy_device")
    /\ UNCHANGED <<run_headless, window_should_close, trash, trash_index,
                   mesh_instances, instance_index, created, destroy_calls,
                   in_flight, idle_confirmed, presses, advances>>
    /\ UNCHANGED <<bufferVars, managerVars, inputVars>>
    /\ UNCHANGED gpu_live
    /\ UNCHANGED <<textureVars, sceneVars, extraVars>>
    /\ UNCHANGED uniform_write

\* vkDestroySurfaceKHR(); vkDestroyInstance(); glfwDestroyWindow();
\* glfwTerminate(); return EXIT_SUCCESS
MainTerminate ==
    /\ pc = "terminate"
    /\ pc' = TeardownNext("terminate")
    /\ UNCHANGED <<run_headless, window_should_close, trash, trash_index,
                   mesh_instances, instance_index, created, destroy_calls,
                   in_flight, idle_confirmed, device_destroyed, presses,
                   advances>>
    /\ UNCHANGED <<bufferVars, managerVars, inputVars>>
    /\ UNCHANGED gpu_live
    /\ UNCHANGED <<textureVars, sceneVars, extraVars>>
    /\ UNCHANGED uniform_write

(***************************************************************************)
(* Texture loading: createTextureImages, createTextureCubeMap              *)
(***************************************************************************)
\* the array layers of a cube map
CubeFaces == 6

\* a VkImageMemoryBarrier2 recorded by vkCmdPipelineBarrier2KHR
Barrier(image, layer, levelCount, oldLayout, newLayout) ==
    [op |-> "barrier", image |-> image, layer |-> layer, level |-> 0,
     levelCount |-> levelCount, oldLayout |-> oldLayout, newLayout |-> newLayout]

\* a VkBufferImageCopy recorded by vkCmdCopyBufferToImage
CopyBufferToImage(image, layer, level) ==
    [op |-> "copy", image |-> image, layer |-> layer, level |-> level,
     levelCount |-> 1, oldLayout |-> "TRANSFER_DST", newLayout |-> "TRANSFER_DST"]

\* a mutant of SecondBarrierLevels: the second barrier covers the base level only
SecondBarrierLevels_BaseOnly(levelCount) == 1

\* subresourceRange.levelCount of the second barrier
SecondBarrierLevels(levelCount) == levelCount

\* a mutant of loadDataToImageLayer: the first copy is recorded before the
\* first barrier
loadDataToImageLayer_CopyFirst(cmd, levelCount, image, layer) ==
    cmd \o <<CopyBufferToImage(image, layer, 0),
             Barrier(image, layer, levelCount, "UNDEFINED", "TRANSFER_DST")>>
        \o [i \in 1..(levelCount - 1) |-> CopyBufferToImage(image, layer, i)]
        \o <<Barrier(image, layer, SecondBarrierLevels(levelCount),
                     "TRANSFER_DST", "SHADER_READ_ONLY")>>

\* a mutant of loadDataToImageLayer: the image goes back to TRANSFER_DST for
\* every level after the first
loadDataToImageLayer_PerLevel(cmd, levelCount, image, layer) ==
    cmd \o <<Barrier(image, layer, levelCount, "UNDEFINED", "TRANSFER_DST"),
             CopyBufferToImage(image, layer, 0),
             Barrier(image, layer, SecondBarrierLevels(levelCount),
                     "TRANSFER_DST", "SHADER_READ_ONLY")>>
        \o [i \in 1..(2 * (levelCount - 1)) |->
              IF i % 2 = 1
                THEN CopyBufferToImage(image, layer, (i + 1) \div 2)
                ELSE Barrier(image, layer, SecondBarrierLevels(levelCount),
                             "TRANSFER_DST", "SHADER_READ_ONLY")]

\* loadDataToImageLayer: the commands it records after those of cmd: the
\* barrier of all levels of the layer to TRANSFER_DST, one copy per level in
\* ascending order, the barrier of all levels to SHADER_READ_ONLY
loadDataToImageLayer(cmd, levelCount, image, layer) ==
    cmd \o <<Barrier(image, layer, levelCount, "UNDEFINED", "TRANSFER_DST")>>
        \o [i \in 1..levelCount |-> CopyBufferToImage(image, layer, i - 1)]
        \o <<Barrier(image, layer, SecondBarrierLevels(levelCount),
                     "TRANSFER_DST", "SHADER_READ_ONLY")>>

\* the subresources of an image layer: one per mip level
Subresources(image, layer, levelCount) ==
    {<<image, layer, level>> : level \in 0..(levelCount - 1)}

\* the layouts after the GPU has executed command c
LayoutAfter(layout, c) ==
    IF c.op = "barrier"
      THEN [s \in DOMAIN layout |->
              IF s \in Subresources(c.image, c.layer, c.levelCount)
                THEN c.newLayout ELSE layout[s]]
      ELSE layout

\* the extents vklGetDdsImageInfo reports for the texture files: every
\* width and height below 2^MaxMipLevels, and the 256 x 256 of the claim
Extents ==
    ((1..(2^MaxMipLevels - 1)) \X (1..(2^MaxMipLevels - 1)))
    \cup {<<256, 256>>}

Max(a, b) == IF a >= b THEN a ELSE b

RECURSIVE FloorLog2(_)
\* std::floor(std::log2(n)) for n >= 1: the double nearest to log2(n) lies
\* on the same side of every integer as log2(n) for all 32-bit n
FloorLog2(n) == IF n < 2 THEN 0 ELSE 1 + FloorLog2(n \div 2)

\* a mutant of MipLevelCount: the smaller side decides
MipLevelCount_Min(width, height) ==
    1 + FloorLog2(IF width <= height THEN width ELSE height)

\* static_cast<uint32_t>(1 + std::floor(std::log2(std::max(width, height))))
MipLevelCount(width, height) == 1 + FloorLog2(Max(width, height))

\* createTextureImages is called with 1..MaxNames names:
\* createAndStartCmdBuffer() begins the command buffer
CallCreateTextureImages ==
    /\ tex_pc = "idle"
    /\ routine' = "images"
    /\ names_count' \in 1..MaxNames
    /\ name_index' = 1
    /\ tex_pc' = "load_names"
    /\ UNCHANGED <<mip_levels, img_info, cmd_buffer, host_buffers, destroyed_buffers,
                   submitted, gpu_pos, fence_signalled, image_layout, textures,
                   image_descriptors, sampled>>
    /\ UNCHANGED vk_result

\* createTextureCubeMap is called with its six names:
\* createAndStartCmdBuffer() begins the command buffer
CallCreateTextureCubeMap ==
    /\ tex_pc = "idle"
    /\ routine' = "cube"
    /\ names_count' = CubeFaces
    /\ name_index' = 1
    /\ tex_pc' = "load_names"
    /\ UNCHANGED <<mip_levels, img_info, cmd_buffer, host_buffers, destroyed_buffers,
                   submitted, gpu_pos, fence_signalled, image_layout, textures,
                   image_descriptors, sampled>>
    /\ UNCHANGED vk_result

\* one round of the loop of createTextureImages: the mip levels of the file
\* are put into staging buffers, the image is created, the commands of
\* loadDataToImageLayer are recorded, the view and the Texture are made
LoadTextureImage ==
    /\ tex_pc = "load_names"
    /\ routine = "images"
    /\ name_index <= names_count
    /\ \E extent \in Extents :
         LET mipLevels == MipLevelCount(extent[1], extent[2])
         IN
           /\ img_info' = extent
           /\ mip_levels' = mipLevels
           /\ host_buffers' = host_buffers \cup
                  {<<name_index, i>> : i \in 0..(mipLevels - 1)}
           /\ image_layout' = image_layout @@
                  [s \in Subresources(name_index, 0, mipLevels) |-> "UNDEFINED"]
           /\ cmd_buffer' = loadDataToImageLayer(cmd_buffer, mipLevels,
                                                 name_index, 0)
    /\ textures' = Append(textures, name_index)
    /\ name_index' = name_index + 1
    /\ UNCHANGED <<tex_pc, routine, names_count, destroyed_buffers, submitted,
                   gpu_pos, fence_signalled, image_descriptors, sampled>>
    /\ UNCHANGED vk_result

\* the loop of createTextureImages ends
LoadTextureImagesDone ==
    /\ tex_pc = "load_names"
    /\ routine = "images"
    /\ name_index > names_count
    /\ tex_pc' = "submit"
    /\ UNCHANGED <<routine, names_count, name_index, mip_levels, img_info, cmd_buffer,
                   host_buffers, destroyed_buffers, submitted, gpu_pos,
                   fence_signalled, image_layout, textures, image_descriptors,
                   sampled>>
    /\ UNCHANGED vk_result

\* one round of the loop of createTextureCubeMap: for the first face the
\* image of six layers is created and the mip level count computed; the mip
\* levels of the face are put into staging buffers and the commands of
\* loadDataToImageLayer are recorded for the face's layer
LoadCubeMapFace ==
    /\ tex_pc = "load_names"
    /\ routine = "cube"
    /\ name_index <= names_count
    /\ \E extent \in Extents :
         LET mipLevels == IF name_index = 1
                            THEN MipLevelCount(extent[1], extent[2])
                            ELSE mip_levels
         IN
           /\ name_index > 1 => extent = img_info
           /\ img_info' = extent
           /\ mip_levels' = mipLevels
           /\ host_buffers' = host_buffers \cup
                  {<<name_index, i>> : i \in 0..(mipLevels - 1)}
           /\ image_layout' =
                  IF name_index = 1
                    THEN image_layout @@
                           [s \in UNION {Subresources(1, layer, mipLevels) :
                                           layer \in 0..(CubeFaces - 1)}
                              |-> "UNDEFINED"]
                    ELSE image_layout
           /\ cmd_buffer' = loadDataToImageLayer(cmd_buffer, mipLevels, 1,
                                                 name_index - 1)
    /\ name_index' = name_index + 1
    /\ UNCHANGED <<tex_pc, routine, names_count, destroyed_buffers, submitted,
                   gpu_pos, fence_signalled, textures, image_descriptors,
                   sampled>>
    /\ UNCHANGED vk_result

\* the loop of createTextureCubeMap ends: the cube view and the Texture are made
LoadCubeMapDone ==
    /\ tex_pc = "load_names"
    /\ routine = "cube"
    /\ name_index > names_count
    /\ textures' = <<1>>
    /\ tex_pc' = "submit"
    /\ UNCHANGED <<routine, names_count, name_index, mip_levels, img_info, cmd_buffer,
                   host_buffers, destroyed_buffers, submitted, gpu_pos,
                   fence_signalled, image_layout, image_descriptors, sampled>>
    /\ UNCHANGED vk_result

\* destroyAndWaitCmdBuffer, first half: vkEndCommandBuffer, vkCreateFence,
\* vkQueueSubmit with the fence
SubmitCmdBuffer ==
    /\ tex_pc = "submit"
    /\ submitted' = TRUE
    /\ tex_pc' = "wait_fence"
    /\ UNCHANGED <<routine, names_count, name_index, mip_levels, img_info, cmd_buffer,
                   host_buffers, destroyed_buffers, gpu_pos, fence_signalled,
                   image_layout, textures, image_descriptors, sampled>>
    /\ UNCHANGED vk_result

\* the GPU executes the next command of the submitted command buffer
GpuExecutes ==
    /\ submitted
    /\ gpu_pos < Len(cmd_buffer)
    /\ image_layout' = LayoutAfter(image_layout, cmd_buffer[gpu_pos + 1])
    /\ gpu_pos' = gpu_pos + 1
    /\ UNCHANGED <<tex_pc, routine, names_count, name_index, mip_levels, img_info,
                   cmd_buffer, host_buffers, destroyed_buffers, submitted,
                   fence_signalled, textures, image_descriptors, sampled>>
    /\ UNCHANGED vk_result

\* the GPU has executed the whole command buffer and signals the fence
GpuSignalsFence ==
    /\ submitted
    /\ gpu_pos = Len(cmd_buffer)
    /\ ~fence_signalled
    /\ fence_signalled' = TRUE
    /\ UNCHANGED <<tex_pc, routine, names_count, name_index, mip_levels, img_info,
                   cmd_buffer, host_buffers, destroyed_buffers, submitted,
                   gpu_pos, image_layout, textures, image_descriptors, sampled>>
    /\ UNCHANGED vk_result

\* a mutant of WaitForFences: the call returns without waiting
WaitForFences_NoWait ==
    /\ tex_pc = "wait_fence"
    /\ tex_pc' = "destroy_staging"
    /\ UNCHANGED <<routine, names_count, name_index, mip_levels, img_info, cmd_buffer,
                   host_buffers, destroyed_buffers, submitted, gpu_pos,
                   fence_signalled, image_layout, textures, image_descriptors,
                   sampled>>
    /\ UNCHANGED vk_result

\* destroyAndWaitCmdBuffer, second half: vkWaitForFences returns when the
\* fence is signalled; the command pool and the fence are destroyed
WaitForFences ==
    /\ tex_pc = "wait_fence"
    /\ fence_signalled
    /\ tex_pc' = "destroy_staging"
    /\ UNCHANGED <<routine, names_count, name_index, mip_levels, img_info, cmd_buffer,
                   host_buffers, destroyed_buffers, submitted, gpu_pos,
                   fence_signalled, image_layout, textures, image_descriptors,
                   sampled>>
    /\ UNCHANGED vk_result

\* for (auto &&buf : host_buffers) vklDestroyHostCoherentBufferAndItsBackingMemory(buf)
DestroyStagingBuffers ==
    /\ tex_pc = "destroy_staging"
    /\ destroyed_buffers' = host_buffers
    /\ tex_pc' = "return"
    /\ UNCHANGED <<routine, names_count, name_index, mip_levels, img_info, cmd_buffer,
                   host_buffers, submitted, gpu_pos, fence_signalled,
                   image_layout, textures, image_descriptors, sampled>>
    /\ UNCHANGED vk_result

\* return result: the caller has the Texture handles
ReturnTextures ==
    /\ tex_pc = "return"
    /\ tex_pc' = "returned"
    /\ UNCHANGED <<routine, names_count, name_index, mip_levels, img_info, cmd_buffer,
                   host_buffers, destroyed_buffers, submitted, gpu_pos,
                   fence_signalled, image_layout, textures, image_descriptors,
                   sampled>>
    /\ UNCHANGED vk_result

\* textures[texture_index]->init_uniforms(vk_device, descriptor_set, 5): the
\* caller writes an image descriptor for a texture it was given
TextureInitUniforms ==
    /\ tex_pc = "returned"
    /\ \E i \in 1..Len(textures) :
           image_descriptors' = image_descriptors \cup {textures[i]}
    /\ UNCHANGED <<tex_pc, routine, names_count, name_index, mip_levels, img_info,
                   cmd_buffer, host_buffers, destroyed_buffers, submitted,
                   gpu_pos, fence_signalled, image_layout, textures, sampled>>
    /\ UNCHANGED vk_result

\* a frame is submitted whose draws sample the textures the descriptor sets
\* refer to
SubmitSamplingDraws ==
    /\ tex_pc = "returned"
    /\ sampled' = image_descriptors
    /\ UNCHANGED <<tex_pc, routine, names_count, name_index, mip_levels, img_info,
                   cmd_buffer, host_buffers, destroyed_buffers, submitted,
                   gpu_pos, fence_signalled, image_layout, textures,
                   image_descriptors>>
    /\ UNCHANGED vk_result

\* the errors a Vulkan call of the loader may report
VkErrors ==
    {"VK_ERROR_OUT_OF_HOST_MEMORY", "VK_ERROR_OUT_OF_DEVICE_MEMORY",
     "VK_ERROR_DEVICE_LOST"}

\* VKL_CHECK_VULKAN_ERROR(error): the statement that runs next, next being
\* the one after the check; on an error the framework ends the process
VKL_CHECK_VULKAN_ERROR(error, next) ==
    IF error # "VK_SUCCESS" THEN "aborted" ELSE next

\* vkCreateCommandPool, vkAllocateCommandBuffers or vkBeginCommandBuffer of
\* createAndStartCmdBuffer reports an error
CreateAndStartCmdBufferFails ==
    /\ tex_pc = "idle"
    /\ routine' \in {"images", "cube"}
    /\ \E error \in VkErrors :
           /\ vk_result' = error
           /\ tex_pc' = VKL_CHECK_VULKAN_ERROR(error, "load_names")
    /\ UNCHANGED <<names_count, name_index, mip_levels, img_info, cmd_buffer,
                   host_buffers, destroyed_buffers, submitted, gpu_pos,
                   fence_signalled, image_layout, textures, image_descriptors,
                   sampled>>

\* a round of the loop of createTextureImages in which vkCreateImageView
\* reports an error: the staging buffers are filled and the commands of the
\* image recorded, the Texture is not made
CreateImageViewFails ==
    /\ tex_pc = "load_names"
    /\ routine = "images"
    /\ name_index <= names_count
    /\ \E extent \in Extents :
         LET mipLevels == MipLevelCount(extent[1], extent[2])
         IN
           /\ img_info' = extent
           /\ mip_levels' = mipLevels
           /\ host_buffers' = host_buffers \cup
                  {<<name_index, i>> : i \in 0..(mipLevels - 1)}
           /\ image_layout' = image_layout @@
                  [s \in Subresources(name_index, 0, mipLevels) |-> "UNDEFINED"]
           /\ cmd_buffer' = loadDataToImageLayer(cmd_buffer, mipLevels,
                                                 name_index, 0)
    /\ \E error \in VkErrors :
           /\ vk_result' = error
           /\ tex_pc' = VKL_CHECK_VULKAN_ERROR(error, "load_names")
    /\ UNCHANGED <<routine, names_count, name_index, destroyed_buffers,
                   submitted, gpu_pos, fence_signalled, textures,
                   image_descriptors, sampled>>

\* vkCreateImageView of the cube view reports an error after the six faces
CreateCubeViewFails ==
    /\ tex_pc = "load_names"
    /\ routine = "cube"
    /\ name_index > names_count
    /\ \E error \in VkErrors :
           /\ vk_result' = error
           /\ tex_pc' = VKL_CHECK_VULKAN_ERROR(error, "submit")
    /\ UNCHANGED <<routine, names_count, name_index, mip_levels, img_info,
                   cmd_buffer, host_buffers, destroyed_buffers, submitted,
                   gpu_pos, fence_signalled, image_layout, textures,
                   image_descriptors, sampled>>

\* a mutant of SubmitCmdBufferFails: the result of the call is not checked
SubmitCmdBufferFails_Unchecked ==
    /\ tex_pc = "submit"
    /\ \E error \in VkErrors :
           /\ vk_result' = error
           /\ tex_pc' = "wait_fence"
    /\ UNCHANGED <<routine, names_count, name_index, mip_levels, img_info,
                   cmd_buffer, host_buffers, destroyed_buffers, submitted,
                   gpu_pos, fence_signalled, image_layout, textures,
                   image_descriptors, sampled>>

\* vkEndCommandBuffer, vkCreateFence or vkQueueSubmit of
\* destroyAndWaitCmdBuffer reports an error: nothing is submitted
SubmitCmdBufferFails ==
    /\ tex_pc = "submit"
    /\ \E error \in VkErrors :
           /\ vk_result' = error
           /\ tex_pc' = VKL_CHECK_VULKAN_ERROR(error, "wait_fence")
    /\ UNCHANGED <<routine, names_count, name_index, mip_levels, img_info,
                   cmd_buffer, host_buffers, destroyed_buffers, submitted,
                   gpu_pos, fence_signalled, image_layout, textures,
                   image_descriptors, sampled>>

\* vkWaitForFences reports an error (the device is lost)
WaitForFencesFails ==
    /\ tex_pc = "wait_fence"
    /\ vk_result' = "VK_ERROR_DEVICE_LOST"
    /\ tex_pc' = VKL_CHECK_VULKAN_ERROR("VK_ERROR_DEVICE_LOST",
                                        "destroy_staging")
    /\ UNCHANGED <<routine, names_count, name_index, mip_levels, img_info,
                   cmd_buffer, host_buffers, destroyed_buffers, submitted,
                   gpu_pos, fence_signalled, image_layout, textures,
                   image_descriptors, sampled>>

(***************************************************************************)
(* Scene setup: MeshInstance uniforms, descriptor pool and descriptor sets *)
(***************************************************************************)
\* the bytes of the uniform block with the given number: byte k of block b
\* is <<b, k>>; block 0 is the block a MeshInstance is constructed with
DefaultBlock == 0

Blocks == 1..MaxBlocks

\* the number a small 64-bit value stands for (offsets and sizes of the
\* shared uniform buffer of main(), all below 2^31)
AsInt(a) == a[1] + LimbBase * a[2]

\* the addresses of the size bytes at offset
Region(offset, size) == {AsInt(offset) + k : k \in 0..(AsInt(size) - 1)}

\* vklCopyDataIntoHostCoherentBuffer(buffer, offset, &block, size): the
\* size bytes of block are copied to the buffer's memory at offset
CopyDataIntoHostCoherentBuffer(mem, offset, block, size) ==
    LET first == AsInt(offset)
        count == AsInt(size)
    IN  [a \in DOMAIN mem \cup Region(offset, size) |->
            IF a >= first /\ a < first + count THEN <<block, a - first>>
            ELSE mem[a]]

\* the texture_index a MeshInstance is constructed with
DefaultTextureIndex == 0

\* the members of a MeshInstance after its constructor; texture_assigned is
\* history: set_texture_index has been called
NewMeshInstance ==
    [uniform_block    |-> DefaultBlock,
     uniform_buffer   |-> "VK_NULL_HANDLE",
     uniform_slot     |-> NoSlot,
     descriptor_set   |-> 0,
     texture_index    |-> DefaultTextureIndex,
     texture_assigned |-> FALSE]

\* a mutant of set_uniforms: the block is cached and nothing is copied
set_uniforms_Cached(self, mem, data) ==
    [self |-> [self EXCEPT !.uniform_block = data], mem |-> mem]

\* MeshInstance::set_uniforms: the instance and the buffer memory after the
\* call
set_uniforms(self, mem, data) ==
    [self |-> [self EXCEPT !.uniform_block = data],
     mem  |-> IF self.uniform_buffer # "VK_NULL_HANDLE"
                THEN CopyDataIntoHostCoherentBuffer(
                         mem, self.uniform_slot.offset, data,
                         self.uniform_slot.size)
                ELSE mem]

\* a mutant of init_uniforms: the slot is stored and nothing is pushed
init_uniforms_NoPush(self, mem, set, range) ==
    [self |-> [self EXCEPT !.descriptor_set = set,
                           !.uniform_buffer = "uniform_buffer",
                           !.uniform_slot = range],
     mem  |-> mem]

\* MeshInstance::init_uniforms, given the descriptor set createVkDescriptorSet
\* returned: the instance and the buffer memory after the call
init_uniforms(self, mem, set, range) ==
    set_uniforms([self EXCEPT !.descriptor_set = set,
                              !.uniform_buffer = "uniform_buffer",
                              !.uniform_slot = range],
                 mem, self.uniform_block)

\* a mutant of RegisterSlot: every instance is given the first slot
RegisterSlot_First(i) == slot(0)

\* uniform_buffer->slot(i) in the registration loop of main()
RegisterSlot(i) == slot(i)

DescriptorTypes == {"UNIFORM_BUFFER", "COMBINED_IMAGE_SAMPLER"}

\* the bindings main() gives createVkDescriptorSetLayout, one descriptor each
SceneSetLayout ==
    [b \in 0..5 |-> IF b = 5 THEN "COMBINED_IMAGE_SAMPLER"
                    ELSE "UNIFORM_BUFFER"]

\* the descriptors of a type one set of the layout takes from the pool
LayoutCount(layout, type) ==
    Cardinality({b \in DOMAIN layout : layout[b] = type})

\* createVkDescriptorPool: one VkDescriptorPoolSize, of type UNIFORM_BUFFER;
\* sets and used count what has been allocated from the pool
createVkDescriptorPool(maxSets, descriptorCount) ==
    [maxSets |-> maxSets,
     sizes   |-> [type \in DescriptorTypes |->
                     IF type = "UNIFORM_BUFFER" THEN descriptorCount ELSE 0],
     sets    |-> 0,
     used    |-> [type \in DescriptorTypes |-> 0]]

NoPool == createVkDescriptorPool(0, 0)

\* the pool after one set of the layout has been allocated from it
PoolAfterAllocate(pool, layout) ==
    [pool EXCEPT !.sets = @ + 1,
                 !.used = [type \in DescriptorTypes |->
                              @[type] + LayoutCount(layout, type)]]

\* the pool holds what has been allocated from it
WithinPool(pool) ==
    /\ pool.sets <= pool.maxSets
    /\ \A type \in DescriptorTypes : pool.used[type] <= pool.sizes[type]

\* the results vkAllocateDescriptorSets may give: an allocation the pool
\* has room for succeeds; one beyond the pool's sizes succeeds on some
\* implementations and returns VK_ERROR_OUT_OF_POOL_MEMORY on others
AllocateResults(pool, layout) ==
    IF WithinPool(PoolAfterAllocate(pool, layout)) THEN {"VK_SUCCESS"}
    ELSE {"VK_SUCCESS", "VK_ERROR_OUT_OF_POOL_MEMORY"}

\* what a binding of a descriptor set refers to
Unwritten == [kind |-> "unwritten", index |-> 0]

Written(kind, index) == [kind |-> kind, index |-> index]

\* the descriptor set vkAllocateDescriptorSets returns: nothing is written
NewDescriptorSet == [b \in DOMAIN SceneSetLayout |-> Unwritten]

\* a mutant of WriteSceneBindings: the texture binding is left out
WriteSceneBindings_NoTexture(set, i, texture_index) ==
    [b \in DOMAIN set |->
        IF b = 0 THEN Written("camera", 0)
        ELSE IF b = 1 THEN Written("instance_slot", i)
        ELSE IF b = 2 THEN Written("shader_constants", 0)
        ELSE IF b = 3 THEN Written("directional_light", 0)
        ELSE IF b = 4 THEN Written("point_light", 0)
        ELSE set[b]]

\* the writes the loop body of main() makes to the set of an instance that
\* has been given slot index i: binding 1 by MeshInstance::init_uniforms,
\* bindings 0, 2, 3, 4, and binding 5 if the texture index is not negative
WriteSceneBindings(set, i, texture_index) ==
    [b \in DOMAIN set |->
        IF b = 0 THEN Written("camera", 0)
        ELSE IF b = 1 THEN Written("instance_slot", i)
        ELSE IF b = 2 THEN Written("shader_constants", 0)
        ELSE IF b = 3 THEN Written("directional_light", 0)
        ELSE IF b = 4 THEN Written("point_light", 0)
        ELSE IF texture_index >= 0 THEN Written("texture", texture_index)
        ELSE set[b]]

NoCall == [op |-> "none", inst |-> 0, data |-> 0]

\* SharedUniformBuffer(vk_physical_device, sizeof(MeshInstanceUniformBlock), 20)
SceneCreateUniformBuffer ==
    /\ scene_pc = "create_uniform_buffer"
    /\ \E align \in DeviceAlignments :
           SharedUniformBuffer(U64(SizeofMeshInstanceUniformBlock), align,
                               SceneElementCount)
    /\ sub_state' = "constructed"
    /\ scene_pc' = "create_descriptor_pool"
    /\ UNCHANGED <<instances, scene_index, uniform_memory, descriptor_pool,
                   descriptor_sets, last_call, last_set>>

\* createVkDescriptorPool(vk_device, 20, 20 * 2)
SceneCreateDescriptorPool ==
    /\ scene_pc = "create_descriptor_pool"
    /\ descriptor_pool' =
           createVkDescriptorPool(PoolMaxSets, PoolMaxSets * 2)
    /\ scene_pc' = "create_scene"
    /\ UNCHANGED <<instances, scene_index, uniform_memory, descriptor_sets,
                   last_call, last_set>>
    /\ UNCHANGED bufferVars

\* createScene(): new MeshInstance(...); instances.push_back(...)
SceneNewInstance ==
    /\ scene_pc = "create_scene"
    /\ Len(instances) < MaxInstances
    /\ instances' = Append(instances, NewMeshInstance)
    /\ last_set' = Append(last_set, DefaultBlock)
    /\ last_call' = [op |-> "new", inst |-> Len(instances) + 1, data |-> 0]
    /\ UNCHANGED <<scene_pc, scene_index, uniform_memory, descriptor_pool,
                   descriptor_sets>>
    /\ UNCHANGED bufferVars

\* createScene(): instance->set_texture_index(t)
SceneSetTextureIndex ==
    /\ scene_pc = "create_scene"
    /\ \E i \in 1..Len(instances), t \in 0..(NumTextures - 1) :
           /\ ~instances[i].texture_assigned
           /\ instances' = [instances EXCEPT ![i].texture_index = t,
                                             ![i].texture_assigned = TRUE]
           /\ last_call' = [op |-> "set_texture_index", inst |-> i, data |-> t]
    /\ UNCHANGED <<scene_pc, scene_index, uniform_memory, descriptor_pool,
                   descriptor_sets, last_set>>
    /\ UNCHANGED bufferVars

\* instance->set_uniforms({...}): createScene() calls it on an instance it
\* has just made; a caller may call it at any later time as well
SceneSetUniforms ==
    /\ scene_pc \in {"create_scene", "register_instances", "frames"}
    /\ \E i \in 1..Len(instances), data \in Blocks :
           LET r == set_uniforms(instances[i], uniform_memory, data)
           IN  /\ instances' = [instances EXCEPT ![i] = r.self]
               /\ uniform_memory' = r.mem
               /\ last_set' = [last_set EXCEPT ![i] = data]
               /\ last_call' = [op |-> "set_uniforms", inst |-> i,
                                data |-> data]
    /\ UNCHANGED <<scene_pc, scene_index, descriptor_pool, descriptor_sets>>
    /\ UNCHANGED bufferVars

\* return instances
SceneCreateSceneDone ==
    /\ scene_pc = "create_scene"
    /\ Len(instances) >= 1
    /\ scene_index' = 0
    /\ scene_pc' = "register_instances"
    /\ last_call' = NoCall
    /\ UNCHANGED <<instances, uniform_memory, descriptor_pool,
                   descriptor_sets, last_set>>
    /\ UNCHANGED bufferVars

\* one round of the loop over mesh_instances: init_uniforms allocates the
\* descriptor set (VKL_CHECK_VULKAN_ERROR ends the program if that fails),
\* then the bindings of the set are written
SceneRegisterInstance ==
    /\ scene_pc = "register_instances"
    /\ scene_index < Len(instances)
    /\ \E result \in AllocateResults(descriptor_pool, SceneSetLayout) :
           IF result = "VK_SUCCESS"
             THEN LET i == scene_index + 1
                      set == Len(descriptor_sets) + 1
                      r == init_uniforms(instances[i], uniform_memory, set,
                                         RegisterSlot(scene_index))
                  IN  /\ descriptor_pool' =
                             PoolAfterAllocate(descriptor_pool, SceneSetLayout)
                      /\ descriptor_sets' =
                             Append(descriptor_sets,
                                    WriteSceneBindings(NewDescriptorSet,
                                        r.self.uniform_slot.index,
                                        r.self.texture_index))
                      /\ instances' = [instances EXCEPT ![i] = r.self]
                      /\ uniform_memory' = r.mem
                      /\ last_call' = [op |-> "init_uniforms", inst |-> i,
                                       data |-> scene_index]
                      /\ scene_index' = scene_index + 1
                      /\ UNCHANGED scene_pc
             ELSE /\ scene_pc' = "fatal"
                  /\ UNCHANGED <<instances, scene_index, uniform_memory,
                                 descriptor_pool, descriptor_sets, last_call>>
    /\ UNCHANGED last_set
    /\ UNCHANGED bufferVars

\* the loop over mesh_instances ends; the frame loop begins
SceneRegisterDone ==
    /\ scene_pc = "register_instances"
    /\ scene_index >= Len(instances)
    /\ scene_pc' = "frames"
    /\ last_call' = NoCall
    /\ UNCHANGED <<instances, scene_index, uniform_memory, descriptor_pool,
                   descriptor_sets, last_set>>
    /\ UNCHANGED bufferVars

(***************************************************************************)
(* Scroll input: Input::onScroll, Input::update and OrbitControls::update  *)
(* in the frames of the loop of main()                                     *)
(***************************************************************************)
\* the (dx, dy) GLFW hands to the scroll callback: wheel steps up and down
\* and a horizontal step
ScrollOffsets == {<<0, 1>>, <<0, -1>>, <<1, 0>>}

\* glm::vec2(0.0f)
ZeroVec2 == <<0, 0>>

\* a + b on glm::vec2
AddVec2(a, b) == <<a[1] + b[1], a[2] + b[2]>>

RECURSIVE SumVec2(_)
\* the sum of the offsets of a sequence of events
SumVec2(events) ==
    IF events = << >> THEN ZeroVec2
    ELSE AddVec2(Head(events), SumVec2(Tail(events)))

\* a mutant of ScrollAfterEvent: the offset is stored, not added
ScrollAfterEvent_Stored(next, dx, dy) == <<dx, dy>>

\* _scrollNextDelta after Input::onScroll(): _scrollNextDelta.x += dx;
\* _scrollNextDelta.y += dy
ScrollAfterEvent(next, dx, dy) == <<next[1] + dx, next[2] + dy>>

\* glm::clamp(x, lo, hi)
Clamp(x, lo, hi) == IF x < lo THEN lo ELSE IF x > hi THEN hi ELSE x

\* distance after OrbitControls::update(), in tenths:
\* distance -= scrollDelta().y / 5.0f; glm::clamp(distance, 0.1f, 100.0f)
DistanceAfterUpdate(d, delta) == Clamp(d - 2 * delta[2], 1, 1000)

\* input->update(): _scrollDelta = _scrollNextDelta;
\* _scrollNextDelta = glm::vec2(0.0f)
ScrollInputUpdate ==
    /\ scroll_pc = "update"
    /\ scroll_frame < MaxScrollFrames
    /\ scrollDelta' = scrollNextDelta
    /\ scrollNextDelta' = ZeroVec2
    /\ scroll_delivered' = AddVec2(scroll_delivered, SumVec2(scroll_events))
    /\ scroll_events' = << >>
    /\ scroll_frame' = scroll_frame + 1
    /\ scroll_pc' = "poll"
    /\ UNCHANGED <<scroll_used, distance>>

\* glfwPollEvents() calls the scroll callback for an event
ScrollOnScroll ==
    /\ scroll_pc = "poll"
    /\ Len(scroll_events) < MaxScrollEvents
    /\ \E offset \in ScrollOffsets :
           /\ scrollNextDelta' =
                  ScrollAfterEvent(scrollNextDelta, offset[1], offset[2])
           /\ scroll_events' = Append(scroll_events, offset)
    /\ UNCHANGED <<scroll_pc, scroll_frame, scrollDelta, scroll_delivered,
                   scroll_used, distance>>

\* glfwPollEvents() returns
ScrollPollDone ==
    /\ scroll_pc = "poll"
    /\ scroll_pc' = "controls"
    /\ UNCHANGED <<scroll_frame, scrollDelta, scrollNextDelta, scroll_events,
                   scroll_delivered, scroll_used, distance>>

\* controls->update(): the one reader of scrollDelta() in the frame
ScrollControlsUpdate ==
    /\ scroll_pc = "controls"
    /\ distance' = DistanceAfterUpdate(distance, scrollDelta)
    /\ scroll_used' = AddVec2(scroll_used, scrollDelta)
    /\ scroll_pc' = "update"
    /\ UNCHANGED <<scroll_frame, scrollDelta, scrollNextDelta, scroll_events,
                   scroll_delivered>>

(***************************************************************************)
(* The state after construction                                            *)
(***************************************************************************)
Init ==
    /\ sub_state = "none"
    /\ element_size = Zero64
    /\ element_stride = Zero64
    /\ element_count = 0
    /\ alignment = 1
    /\ buffer_bytes = Zero64
    /\ last_slot = NoSlot
    /\ polygon_mode = 0
    /\ culling_mode = 0
    /\ last_polygon_arg = NoArg
    /\ last_culling_arg = NoArg
    /\ polygon_cycle = NoCycle
    /\ culling_cycle = NoCycle
    /\ keys = [k \in Keys |-> FALSE]
    /\ keysPrev = [k \in Keys |-> FALSE]
    /\ pc = "start"
    /\ run_headless = FALSE
    /\ window_should_close = FALSE
    /\ trash = << >>
    /\ trash_index = 1
    /\ mesh_instances = << >>
    /\ instance_index = 1
    /\ created = {}
    /\ destroy_calls = [d \in Disposables |-> 0]
    /\ gpu_live = {}
    /\ uniform_write = NoWrite
    /\ scene_pc = "create_uniform_buffer"
    /\ instances = << >>
    /\ scene_index = 0
    /\ uniform_memory = << >>
    /\ descriptor_pool = NoPool
    /\ descriptor_sets = << >>
    /\ last_call = NoCall
    /\ last_set = << >>
    /\ matrix_pc = "new"
    /\ matrix = << >>
    /\ matrix_i = 0
    /\ matrix_j = 0
    /\ pipelines_created = << >>
    /\ pipelines_destroyed = {}
    /\ shader = "Phong"
    /\ scroll_pc = "update"
    /\ scroll_frame = 0
    /\ scrollDelta = ZeroVec2
    /\ scrollNextDelta = ZeroVec2
    /\ scroll_events = << >>
    /\ scroll_delivered = ZeroVec2
    /\ scroll_used = ZeroVec2
    /\ distance = 50
    /\ in_flight = 0
    /\ idle_confirmed = FALSE
    /\ device_destroyed = FALSE
    /\ presses = [k \in Keys |-> 0]
    /\ advances = [k \in {"F1", "F2"} |-> 0]
    /\ tex_pc = "idle"
    /\ routine = "none"
    /\ names_count = 0
    /\ name_index = 1
    /\ mip_levels = 0
    /\ img_info = <<0, 0>>
    /\ vk_result = "VK_SUCCESS"
    /\ cmd_buffer = << >>
    /\ host_buffers = {}
    /\ destroyed_buffers = {}
    /\ submitted = FALSE
    /\ gpu_pos = 0
    /\ fence_signalled = FALSE
    /\ image_layout = << >>
    /\ textures = << >>
    /\ image_descriptors = {}
    /\ sampled = {}

(***************************************************************************)
(* SpecBuffer: a SharedUniformBuffer is constructed and asked for slots    *)
(***************************************************************************)
NextBuffer ==
    /\ \/ ConstructBuffer
       \/ ConstructBufferFails
       \/ QuerySlot
    /\ UNCHANGED <<managerVars, inputVars, mainVars, textureVars,
                 sceneVars, extraVars>>

SpecBuffer == Init /\ [][NextBuffer]_vars

(***************************************************************************)
(* SpecManager: the methods of PipelineMatrixManager and Input are called  *)
(* in any order with any arguments                                         *)
(***************************************************************************)
CallSetPolygonMode ==
    \E mode \in ModeArgs :
        /\ set_polygon_mode(mode)
        /\ UNCHANGED <<culling_mode, last_culling_arg, culling_cycle>>
        /\ UNCHANGED <<bufferVars, inputVars, mainVars, textureVars,
                 sceneVars, extraVars>>

CallSetCullingMode ==
    \E mode \in ModeArgs :
        /\ set_culling_mode(mode)
        /\ UNCHANGED <<polygon_mode, last_polygon_arg, polygon_cycle>>
        /\ UNCHANGED <<bufferVars, inputVars, mainVars, textureVars,
                 sceneVars, extraVars>>

CallUpdate ==
    /\ update
    /\ UNCHANGED <<bufferVars, inputVars, mainVars, textureVars,
                 sceneVars, extraVars>>

CallInputUpdate ==
    /\ Input_update
    /\ UNCHANGED <<bufferVars, managerVars, mainVars, textureVars,
                 sceneVars, extraVars>>

CallOnKey ==
    \E key \in {"F1", "F2"}, action \in KeyActions :
        /\ onKey(key, action)
        /\ UNCHANGED <<bufferVars, managerVars, mainVars, textureVars,
                 sceneVars, extraVars>>

NextManager ==
    \/ CallSetPolygonMode
    \/ CallSetCullingMode
    \/ CallUpdate
    \/ CallInputUpdate
    \/ CallOnKey

SpecManager == Init /\ [][NextManager]_vars

(***************************************************************************)
(* Spec: main() runs from the parsing of the command line to its return,   *)
(* the user presses keys and the GPU works through the submitted frames    *)
(***************************************************************************)
Next ==
    \/ MainParseArgs
    \/ MainCreateCamera
    \/ MainCreatePipelines
    \/ MainCreateUniformBuffer
    \/ MainCreateUniformBufferFails
    \/ MainCreateTextures
    \/ MainCreateScene
    \/ MainRegisterInstance
    \/ MainRegisterDone
    \/ MainFrameBegin
    \/ MainLoopExit
    \/ MainPollEvents
    \/ MainFrameUpdate
    \/ MainWaitForNextSwapchainImage
    \/ MainRecordAndPresent
    \/ GpuCompletes
    \/ MainWaitIdle
    \/ MainDestroyDescriptors
    \/ MainTrashDestroy
    \/ MainTrashDone
    \/ MainDestroySampler
    \/ MainDestroyFramework
    \/ MainDestroyDevice
    \/ MainTerminate

Spec == Init /\ [][Next]_vars

\* main() under the scheduling of the program: the main thread executes its
\* next statement whenever it is not blocked in a wait, and the GPU finishes
\* the work submitted to it
SpecLive == Init /\ [][Next]_vars /\ WF_vars(Next)

(***************************************************************************)
(* SpecTexture: one call of createTextureImages or createTextureCubeMap,   *)
(* the GPU executing the submitted commands, and the caller using the      *)
(* textures it was given                                                   *)
(***************************************************************************)
NextTexture ==
    /\ \/ CallCreateTextureImages
       \/ CallCreateTextureCubeMap
       \/ LoadTextureImage
       \/ LoadTextureImagesDone
       \/ LoadCubeMapFace
       \/ LoadCubeMapDone
       \/ SubmitCmdBuffer
       \/ GpuExecutes
       \/ GpuSignalsFence
       \/ WaitForFences
       \/ DestroyStagingBuffers
       \/ ReturnTextures
       \/ TextureInitUniforms
       \/ SubmitSamplingDraws
       \/ CreateAndStartCmdBufferFails
       \/ CreateImageViewFails
       \/ CreateCubeViewFails
       \/ SubmitCmdBufferFails
       \/ WaitForFencesFails
    /\ UNCHANGED <<bufferVars, managerVars, inputVars, mainVars, sceneVars, extraVars>>

SpecTexture == Init /\ [][NextTexture]_vars

(***************************************************************************)
(* SpecScene: the part of main() that sets the scene up (shared uniform    *)
(* buffer, descriptor pool, createScene(), the registration loop), and     *)
(* set_uniforms calls on the instances at any time                         *)
(***************************************************************************)
NextScene ==
    /\ \/ SceneCreateUniformBuffer
       \/ SceneCreateDescriptorPool
       \/ SceneNewInstance
       \/ SceneSetTextureIndex
       \/ SceneSetUniforms
       \/ SceneCreateSceneDone
       \/ SceneRegisterInstance
       \/ SceneRegisterDone
    /\ UNCHANGED <<managerVars, inputVars, mainVars, textureVars, extraVars>>

SpecScene == Init /\ [][NextScene]_vars

(***************************************************************************)
(* SpecMatrix: a PipelineMatrixManager is constructed, then its modes and  *)
(* its shading model are set in any order                                  *)
(***************************************************************************)
NextMatrix ==
    /\ \/ MatrixConstruct
       \/ MatrixCreateEntry
       \/ MatrixConstructed
       \/ MatrixSetPolygonMode
       \/ MatrixSetCullingMode
       \/ MatrixSetShader
       \/ MatrixDestroy
    /\ UNCHANGED <<bufferVars, inputVars, mainVars, textureVars, sceneVars,
                   scrollVars>>

SpecMatrix == Init /\ [][NextMatrix]_vars

(***************************************************************************)
(* SpecScroll: the frames of the loop of main() seen from the scroll       *)
(* input: Input::update(), the scroll callbacks of glfwPollEvents(), and   *)
(* OrbitControls::update()                                                 *)
(***************************************************************************)
NextScroll ==
    /\ \/ ScrollInputUpdate
       \/ ScrollOnScroll
       \/ ScrollPollDone
       \/ ScrollControlsUpdate
    /\ UNCHANGED <<bufferVars, managerVars, inputVars, mainVars, textureVars,
                   sceneVars, matrixVars>>

SpecScroll == Init /\ [][NextScroll]_vars

(***************************************************************************)
(* Claims about SharedUniformBuffer (checked under SpecBuffer)             *)
(***************************************************************************)
\* stride is the least multiple of align that is >= size
StrideIsLeastMultiple(size, stride, align) ==
    /\ Le64(size, stride)
    /\ Mod64(stride, align) = 0
    /\ Lt64(Sub64(stride, size), U64(align))

\* the byte range of slot s ends at or before the start of slot t
EndsBefore(s, t) ==
    /\ ~AddWraps(s.offset, s.size)
    /\ Le64(Add64(s.offset, s.size), t.offset)

\* the byte ranges [offset, offset + size) of s and t have no byte in common
Disjoint(s, t) ==
    \/ s.size = Zero64
    \/ t.size = Zero64
    \/ EndsBefore(s, t)
    \/ EndsBefore(t, s)

\* C1 as stated: for every element size and every positive alignment the
\* stride computed by the constructor is >= the element size, a multiple of
\* the alignment, and the smallest such multiple.
C1_StrideLeastMultiple_AnyAlignment ==
    sub_state # "none" =>
        StrideIsLeastMultiple(element_size, element_stride, alignment)

\* C1 as amended: when the alignment is a power of two and
\* element_size + alignment - 1 fits 64 bits, the stride computed by the
\* constructor is >= the element size, a multiple of the alignment, and the
\* smallest such multiple.
C1_StrideLeastMultiple_PowerOfTwo ==
    (/\ sub_state # "none"
     /\ IsPowerOfTwo(alignment)
     /\ ~AddWraps(element_size, U64(alignment - 1)))
    => StrideIsLeastMultiple(element_size, element_stride, alignment)

\* a buffer was constructed for a size that needed padding to a
\* power-of-two alignment
C1_Witness ==
    /\ sub_state = "constructed"
    /\ IsPowerOfTwo(alignment) /\ alignment > 1
    /\ ~AddWraps(element_size, U64(alignment - 1))
    /\ Mod64(element_size, alignment) # 0
    /\ Lt64(element_size, element_stride)

\* C2 as stated: the byte ranges of any two different slots with indices
\* below element_count do not overlap.
C2_SlotsDisjoint ==
    sub_state = "constructed" =>
        \A i, j \in 0..(element_count - 1) :
            i # j => Disjoint(slot(i), slot(j))

\* C2 as amended: when neither element_size + alignment - 1 nor
\* element_stride * element_count wraps around 64 bits, the byte ranges of
\* any two different slots with indices below element_count do not overlap.
C2_SlotsDisjoint_NoWrap ==
    (/\ sub_state = "constructed"
     /\ ~AddWraps(element_size, U64(alignment - 1))
     /\ ~MulWraps(element_stride, element_count))
    => \A i, j \in 0..(element_count - 1) :
            i # j => Disjoint(slot(i), slot(j))

\* a buffer of several non-empty padded elements was constructed and a slot
\* other than the first was handed out
C2_Witness ==
    /\ sub_state = "constructed"
    /\ element_count >= 2
    /\ ~AddWraps(element_size, U64(alignment - 1))
    /\ ~MulWraps(element_stride, element_count)
    /\ Lt64(Zero64, element_size)
    /\ Lt64(element_size, element_stride)
    /\ last_slot.index >= 1
    /\ last_slot.index < element_count

\* C22: a Shared Uniform Buffer constructed with elementSize = 80 and
\* elementCount = 20 on a device whose minUniformBufferOffsetAlignment is 64
\* has elementStride = 128, and slot(5) returns offset 640 and size 80.
C22_Stride128_Slot5At640 ==
    (/\ sub_state = "constructed"
     /\ element_size = U64(80)
     /\ element_count = 20
     /\ alignment = 64) =>
        /\ element_stride = U64(128)
        /\ last_slot.index = 5 =>
               /\ last_slot.offset = U64(640)
               /\ last_slot.size = U64(80)

\* slot(5) has been asked of the buffer of 20 elements of 80 bytes
C22_Witness ==
    /\ sub_state = "constructed"
    /\ element_size = U64(80)
    /\ element_count = 20
    /\ alignment = 64
    /\ last_slot.index = 5

(***************************************************************************)
(* Claims about PipelineMatrixManager (checked under SpecManager)          *)
(***************************************************************************)
\* the non-negative mathematical residue of i modulo n
Residue(i, n) == ((i % n) + n) % n

\* C3: after set_polygon_mode(i) / set_culling_mode(i), for any int i, the
\* index equals ((i mod N) + N) mod N, the non-negative residue of i modulo
\* the axis length N.
C3_IndexIsResidue ==
    /\ last_polygon_arg.called =>
           polygon_mode = Residue(last_polygon_arg.arg, Len(polygon_modes))
    /\ last_culling_arg.called =>
           culling_mode = Residue(last_culling_arg.arg, Len(culling_modes))

\* C4: after any sequence of set_polygon_mode, set_culling_mode and update
\* calls the polygon-mode index and the cull-mode index are inside their
\* axes, so selected() indexes an entry of the pipeline matrix.
C4_IndicesInRange ==
    /\ polygon_mode \in 0..(Len(polygon_modes) - 1)
    /\ culling_mode \in 0..(Len(culling_modes) - 1)
    /\ selected \in MatrixEntries

\* both setters have been called with arguments outside their axes, one of
\* them negative
C4_Witness ==
    /\ last_polygon_arg.called /\ last_polygon_arg.arg >= Len(polygon_modes)
    /\ last_culling_arg.called /\ last_culling_arg.arg < -Len(culling_modes)

\* C5: N calls of set-mode(current + 1) in a row, N the axis length, bring
\* the index back to where the run started.
C5_FullCycleReturns ==
    /\ polygon_cycle.len = Len(polygon_modes) => polygon_mode = polygon_cycle.start
    /\ culling_cycle.len = Len(culling_modes) => culling_mode = culling_cycle.start

\* a full run has been made on both axes, the cull-mode run starting from
\* an index other than 0
C5_Witness ==
    /\ polygon_cycle.len = Len(polygon_modes)
    /\ culling_cycle.len = Len(culling_modes)
    /\ culling_cycle.start # 0

(***************************************************************************)
(* Claims about the frame loop and the teardown of main() (checked under   *)
(* Spec)                                                                   *)
(***************************************************************************)
\* C6: whenever the frame that polled a key event has run update(), every
\* press of F1 (F2) delivered so far has advanced the polygon-mode
\* (cull-mode) index by one step exactly once, however the press and release
\* events fall relative to the frames.
C6_EveryPressAdvancesOnce ==
    pc # "frame_update" =>
        /\ advances["F1"] = presses["F1"]
        /\ advances["F2"] = presses["F2"]

C8_DestroyOnlyWhenIdle ==
    (\E d \in Disposables : destroy_calls[d] > 0) =>
        /\ idle_confirmed
        /\ in_flight = 0

\* frames were drawn until Escape was pressed, and the teardown has then
\* destroyed the objects on the trash list
C8_Witness ==
    /\ presses["ESCAPE"] = 1
    /\ ~run_headless
    /\ pc = "trash_pass"
    /\ trash_index > Len(trash)
    /\ \A d \in created : destroy_calls[d] > 0

\* C9: no step that calls destroy on a disposable object is taken when the
\* logical device is destroyed, nor does it destroy the device.
C9_DestroyBeforeDeviceDestroyed ==
    [][(destroy_calls' # destroy_calls) =>
           (~device_destroyed /\ ~device_destroyed')]_vars

\* the device has just been destroyed, after the camera, the pipelines and
\* the meshes were
C9_Witness ==
    /\ device_destroyed
    /\ pc = "terminate"
    /\ destroy_calls[CameraObject] = 1
    /\ destroy_calls[PipelinesObject] = 1
    /\ \E m \in MeshObjects : destroy_calls[m] >= 1

\* C10: once the logical device is destroyed, the teardown pass over the
\* trash list is complete, every disposable object created during setup is
\* on the list and has been destroyed, and no mesh buffer, texture image or
\* view, shared uniform buffer, camera buffer or pipeline exists any more.
C10_NoLeakOnShutdown ==
    device_destroyed =>
        /\ trash_index > Len(trash)
        /\ \A d \in created :
               /\ \E i \in 1..Len(trash) : trash[i] = d
               /\ destroy_calls[d] >= 1
        /\ gpu_live = {}

\* main() has returned after the frame loop was left through the window's
\* should-close flag, for a scene in which every instance has its own mesh
C10_Witness ==
    /\ pc = "done"
    /\ device_destroyed
    /\ window_should_close
    /\ created = Disposables
    /\ \A d \in Disposables : destroy_calls[d] = 1

(***************************************************************************)
(* Claims about texture loading (checked under SpecTexture)                *)
(***************************************************************************)
\* commands i and j of the command buffer are about the same texture
SameTexture(i, j) == cmd_buffer[i].image = cmd_buffer[j].image

\* commands i and j of the command buffer are about the same array layer of
\* the same texture
SameLayer(i, j) ==
    /\ cmd_buffer[i].image = cmd_buffer[j].image
    /\ cmd_buffer[i].layer = cmd_buffer[j].layer

IsCopy(i) == cmd_buffer[i].op = "copy"

IsBarrierTo(i, layout) ==
    cmd_buffer[i].op = "barrier" /\ cmd_buffer[i].newLayout = layout

\* the place of a command in the state machine: barrier 1, copies, barrier 2
Rank(i) ==
    IF IsBarrierTo(i, "TRANSFER_DST") THEN 1
    ELSE IF IsCopy(i) THEN 2
    ELSE 3

\* C11 as stated: in the recorded command buffer every barrier to
\* TRANSFER_DST of a texture comes before every copy command of that
\* texture, every copy command of the texture comes before every barrier to
\* SHADER_READ_ONLY of the texture, and every copy has both barriers.
C11_BarrierCopyBarrier_PerTexture ==
    \A j \in 1..Len(cmd_buffer) :
        IsCopy(j) =>
            /\ \E i \in 1..(j - 1) :
                   SameTexture(i, j) /\ IsBarrierTo(i, "TRANSFER_DST")
            /\ \E k \in (j + 1)..Len(cmd_buffer) :
                   SameTexture(k, j) /\ IsBarrierTo(k, "SHADER_READ_ONLY")
            /\ \A i \in 1..Len(cmd_buffer) :
                   /\ (SameTexture(i, j) /\ IsBarrierTo(i, "TRANSFER_DST"))
                          => i < j
                   /\ (SameTexture(i, j) /\ IsBarrierTo(i, "SHADER_READ_ONLY"))
                          => j < i

\* C11 as amended: in the recorded command buffer, for every array layer of
\* a texture (the whole image of a 2D texture, one face of a cube map), the
\* barrier of the layer to TRANSFER_DST comes before every copy command into
\* the layer and covers its mip level, and every copy command into the layer
\* comes before the barrier of the layer to SHADER_READ_ONLY.
C11_BarrierCopyBarrier_PerLayer ==
    \A j \in 1..Len(cmd_buffer) :
        IsCopy(j) =>
            /\ \E i \in 1..(j - 1) :
                   /\ SameLayer(i, j) /\ IsBarrierTo(i, "TRANSFER_DST")
                   /\ cmd_buffer[j].level < cmd_buffer[i].levelCount
            /\ \E k \in (j + 1)..Len(cmd_buffer) :
                   SameLayer(k, j) /\ IsBarrierTo(k, "SHADER_READ_ONLY")
            /\ \A i \in 1..Len(cmd_buffer) :
                   /\ (SameLayer(i, j) /\ IsBarrierTo(i, "TRANSFER_DST"))
                          => i < j
                   /\ (SameLayer(i, j) /\ IsBarrierTo(i, "SHADER_READ_ONLY"))
                          => j < i

\* the commands of all six faces of a cube map with several mip levels have
\* been recorded
C11_Witness ==
    /\ routine = "cube"
    /\ tex_pc = "submit"
    /\ mip_levels >= 2
    /\ Len(cmd_buffer) = CubeFaces * (mip_levels + 2)

\* C12 as stated: the commands recorded for a texture run through the
\* states in the order barrier to TRANSFER_DST, copies, barrier to
\* SHADER_READ_ONLY; neither barrier is recorded twice for the texture, the
\* copies go up through the mip levels, nothing is recorded for the texture
\* after its barrier to SHADER_READ_ONLY, and the Texture is handed out only
\* with that barrier recorded.
C12_OneShot_PerTexture ==
    /\ \A i, j \in 1..Len(cmd_buffer) :
           (i < j /\ SameTexture(i, j)) =>
               /\ Rank(i) <= Rank(j)
               /\ Rank(i) = Rank(j) =>
                      (IsCopy(i) /\ cmd_buffer[i].level < cmd_buffer[j].level)
    /\ \A t \in 1..Len(textures) :
           \E k \in 1..Len(cmd_buffer) :
               cmd_buffer[k].image = textures[t]
                   /\ IsBarrierTo(k, "SHADER_READ_ONLY")

\* C12 as amended: the commands recorded for one array layer of a texture
\* (the whole image of a 2D texture, one face of a cube map) run through the
\* states in the order barrier to TRANSFER_DST, copies, barrier to
\* SHADER_READ_ONLY; neither barrier is recorded twice for the layer, the
\* copies go up through the mip levels, nothing is recorded for the layer
\* after its barrier to SHADER_READ_ONLY, and the Texture is handed out only
\* with that barrier recorded for every layer.
C12_OneShot_PerLayer ==
    /\ \A i, j \in 1..Len(cmd_buffer) :
           (i < j /\ SameLayer(i, j)) =>
               /\ Rank(i) <= Rank(j)
               /\ Rank(i) = Rank(j) =>
                      (IsCopy(i) /\ cmd_buffer[i].level < cmd_buffer[j].level)
    /\ \A t \in 1..Len(textures) :
           \A s \in DOMAIN image_layout :
               s[1] = textures[t] =>
                   \E k \in 1..Len(cmd_buffer) :
                       /\ cmd_buffer[k].image = s[1]
                       /\ cmd_buffer[k].layer = s[2]
                       /\ IsBarrierTo(k, "SHADER_READ_ONLY")

\* two 2D textures, the second with several mip levels, have been loaded
\* and handed to the caller
C12_Witness ==
    /\ routine = "images"
    /\ tex_pc = "returned"
    /\ Len(textures) = 2
    /\ mip_levels >= 2

\* C13: whenever a staging buffer has been destroyed or the Texture handles
\* have been returned to the caller, the command buffer has been submitted
\* and the fence of that submission has signalled, the GPU having executed
\* every recorded command.
C13_LoadIsSynchronous ==
    (destroyed_buffers # {} \/ tex_pc \in {"return", "returned"}) =>
        /\ submitted
        /\ fence_signalled
        /\ gpu_pos = Len(cmd_buffer)

\* a load of several mip levels has returned, its staging buffers destroyed
C13_Witness ==
    /\ tex_pc = "returned"
    /\ Cardinality(host_buffers) >= 2
    /\ destroyed_buffers = host_buffers
    /\ fence_signalled

\* the subresources of the image of a texture
SubresourcesOf(t) == {s \in DOMAIN image_layout : s[1] = t}

\* C14: every subresource (every mip level of every array layer) of an image
\* for which an image descriptor has been written, or which a submitted
\* draw samples, is in SHADER_READ_ONLY layout.
C14_ShaderReadOnlyBeforeUse ==
    \A t \in image_descriptors \cup sampled :
        \A s \in SubresourcesOf(t) : image_layout[s] = "SHADER_READ_ONLY"

\* a draw samples a texture of several mip levels
C14_Witness ==
    \E t \in sampled :
        /\ t \in image_descriptors
        /\ Cardinality(SubresourcesOf(t)) >= 2

(***************************************************************************)
(* Claims about the uniform buffers in main() (checked under Spec)         *)
(***************************************************************************)

\* C15: uniform buffers (the instance slots, the camera buffer, the
\* shader-constant buffer) are written by the CPU only between frames: no
\* write happens while a submitted command buffer that reads the written
\* region has not finished.
C15_NoWriteWhileInFlight ==
    uniform_write.buffers # {} => uniform_write.readers = 0

(***************************************************************************)
(* Claims about the scene setup (checked under SpecScene)                  *)
(***************************************************************************)
\* the bytes of the shared uniform buffer at the offset of the slot are the
\* bytes of the block
RegionHolds(mem, range, block) ==
    \A k \in 0..(SizeofMeshInstanceUniformBlock - 1) :
        /\ AsInt(range.offset) + k \in DOMAIN mem
        /\ mem[AsInt(range.offset) + k] = <<block, k>>

\* the buffer has been bound to the instance by init_uniforms
IsBound(i) == instances[i].uniform_buffer # "VK_NULL_HANDLE"

\* C16 as stated: after every call MeshInstance.setUniforms(block), the
\* bytes of that instance's slot region in the shared uniform buffer equal
\* block.
C16_WriteThrough_EveryCall ==
    last_call.op = "set_uniforms" =>
        RegionHolds(uniform_memory, instances[last_call.inst].uniform_slot,
                    last_call.data)

\* C16, amended: after every call MeshInstance.setUniforms(block) on an
\* instance that initUniforms has bound to the buffer, the bytes of the
\* instance's slot region equal block.
C16_WriteThrough_WhenBound ==
    (last_call.op = "set_uniforms" /\ IsBound(last_call.inst)) =>
        /\ instances[last_call.inst].uniform_block = last_call.data
        /\ RegionHolds(uniform_memory, instances[last_call.inst].uniform_slot,
                       last_call.data)

\* set_uniforms has replaced the block of the second instance after the
\* registration loop
C16_Witness ==
    /\ scene_pc = "frames"
    /\ last_call.op = "set_uniforms"
    /\ last_call.inst = 2
    /\ IsBound(2)
    /\ \E i \in 1..Len(instances) :
           i # 2 /\ IsBound(i) /\ instances[i].uniform_block # last_call.data

\* C17: when MeshInstance.initUniforms returns, the instance has stored the
\* given slot, and the slot's region holds the instance's current block:
\* the block of the most recent setUniforms call made before, or the
\* default block if there was none.
C17_InitPushesCurrentBlock ==
    last_call.op = "init_uniforms" =>
        LET self == instances[last_call.inst]
        IN  /\ IsBound(last_call.inst)
            /\ self.uniform_slot = slot(last_call.data)
            /\ self.uniform_block = last_set[last_call.inst]
            /\ RegionHolds(uniform_memory, slot(last_call.data),
                           last_set[last_call.inst])

\* init_uniforms has returned for an instance whose block createScene() had
\* set, and for one that still had the default block
C17_Witness ==
    /\ last_call.op = "init_uniforms"
    /\ last_call.inst = 2
    /\ last_set[2] \in Blocks
    /\ last_set[1] = DefaultBlock
    /\ RegionHolds(uniform_memory, instances[1].uniform_slot, DefaultBlock)

\* the regions of the slots of two instances have no byte in common
DisjointSlots(i, j) ==
    /\ instances[i].uniform_slot.index # instances[j].uniform_slot.index
    /\ Region(instances[i].uniform_slot.offset,
              instances[i].uniform_slot.size)
           \cap Region(instances[j].uniform_slot.offset,
                       instances[j].uniform_slot.size) = {}

\* a set_uniforms step leaves the bytes of the regions of the other
\* instances as they were
SetUniformsLeavesOthers ==
    last_call'.op = "set_uniforms" =>
        \A j \in 1..Len(instances) :
            (j # last_call'.inst /\ IsBound(j)) =>
                \A a \in Region(instances[j].uniform_slot.offset,
                                instances[j].uniform_slot.size) :
                    a \in DOMAIN uniform_memory =>
                        /\ a \in DOMAIN uniform_memory'
                        /\ uniform_memory'[a] = uniform_memory[a]

\* C18: no two mesh instances are assigned the same slot, and a setUniforms
\* call on one instance never changes a byte inside the slot region of
\* another instance.
C18_OneOwnerPerSlot ==
    /\ [](\A i, j \in 1..Len(instances) :
             (i # j /\ IsBound(i) /\ IsBound(j)) => DisjointSlots(i, j))
    /\ [][SetUniformsLeavesOthers]_vars

\* set_uniforms has been called on one of two registered instances that
\* hold different blocks
C18_Witness ==
    /\ last_call.op = "set_uniforms"
    /\ Len(instances) >= 2
    /\ \A i \in 1..Len(instances) : IsBound(i)
    /\ \E j \in 1..Len(instances) :
           /\ j # last_call.inst
           /\ instances[j].uniform_block # last_call.data
           /\ RegionHolds(uniform_memory, instances[j].uniform_slot,
                          instances[j].uniform_block)

\* C19: the descriptor pool created for the scene is large enough for all
\* of the scene's descriptor sets: allocating one set of the scene's layout
\* for each mesh instance never exhausts the pool, neither in the number of
\* sets nor in the number of descriptors of any type the layout uses.
C19_PoolLargeEnough ==
    /\ scene_pc # "fatal"
    /\ WithinPool(descriptor_pool)

\* the descriptor set of the instance
SetOf(i) == descriptor_sets[instances[i].descriptor_set]

LoadCallFailed == vk_result # "VK_SUCCESS"

\* C26: when a graphics-API call inside the texture load routine reports a
\* failure the process aborts at that call: from then on no command is
\* recorded, nothing is submitted, and the caller never holds a Texture (the
\* routine does not return, no descriptor is written for a texture and none
\* is sampled).
C26_FailureAbortsLoad ==
    /\ [](LoadCallFailed =>
             /\ tex_pc = "aborted"
             /\ image_descriptors = {}
             /\ sampled = {})
    /\ [][LoadCallFailed =>
             /\ cmd_buffer' = cmd_buffer
             /\ submitted' = submitted
             /\ textures' = textures
             /\ tex_pc' = tex_pc]_vars

\* C26 witness: a call failed after commands were recorded and Textures were
\* made inside the routine, and the process is aborted.
C26_Witness ==
    /\ LoadCallFailed
    /\ tex_pc = "aborted"
    /\ Len(cmd_buffer) > 0
    /\ Len(textures) > 0
    /\ ~submitted

(***************************************************************************)
(* Claims about the mip levels of a texture (checked under SpecTexture)    *)
(***************************************************************************)
\* C21: the mip-level count computed for a texture of extent width x height
\* is 1 + floor(log2(max(width, height))), that is the L with
\* 2^(L-1) <= max(width, height) < 2^L; for a square texture of size 2^n it
\* is n + 1, and a 256 x 256 texture has 9 levels.
C21_MipLevelCount ==
    img_info # <<0, 0>> =>
        LET longer == IF img_info[1] >= img_info[2] THEN img_info[1]
                      ELSE img_info[2]
        IN  /\ 2^(mip_levels - 1) <= longer
            /\ longer < 2^mip_levels
            /\ (img_info[1] = img_info[2] /\ IsPowerOfTwo(img_info[1])) =>
                   img_info[1] = 2^(mip_levels - 1)
            /\ img_info = <<256, 256>> => mip_levels = 9

\* a 256 x 256 texture has been loaded with its 9 levels
C21_Witness ==
    /\ tex_pc = "returned"
    /\ img_info = <<256, 256>>
    /\ mip_levels = 9
    /\ Cardinality(host_buffers) >= 9

(***************************************************************************)
(* Claims about the pipeline matrix (checked under SpecMatrix)             *)
(***************************************************************************)
\* C23: a Pipeline Matrix Manager with 2 polygon modes and 3 cull modes for
\* one shading model creates exactly 6 pipelines, one per (polygon mode,
\* cull mode) combination, with 6 pairwise distinct handles.
C23_SixDistinctPipelines ==
    matrix_pc = "constructed" =>
        /\ Len(polygon_modes) = 2
        /\ Len(culling_modes) = 3
        /\ Len(pipelines_created) = 6
        /\ DOMAIN matrix = MatrixEntries
        /\ Cardinality({matrix[e] : e \in MatrixEntries}) = 6
        /\ \A e \in MatrixEntries :
               /\ matrix[e] \in 1..Len(pipelines_created)
               /\ pipelines_created[matrix[e]] =
                      [polygon_mode |-> polygon_modes[e[1] + 1],
                       culling_mode |-> culling_modes[e[2] + 1]]

\* the constructor has returned with the matrix filled
C23_Witness ==
    /\ matrix_pc = "constructed"
    /\ Len(pipelines_created) = 6
    /\ \A e \in MatrixEntries : matrix[e] # 0

\* C24: selected() called immediately after construction, before any mode
\* change, returns the pipeline that was created for the (fill polygon mode,
\* no culling) combination.
C24_InitialSelectionFillNoCull ==
    (/\ matrix_pc = "constructed"
     /\ ~last_polygon_arg.called
     /\ ~last_culling_arg.called) =>
        /\ SelectedPipeline \in 1..Len(pipelines_created)
        /\ pipelines_created[SelectedPipeline] =
               [polygon_mode |-> "FILL", culling_mode |-> "NONE"]

\* the manager is constructed and no mode has been set
C24_Witness ==
    /\ matrix_pc = "constructed"
    /\ ~last_polygon_arg.called
    /\ ~last_culling_arg.called
    /\ SelectedPipeline = matrix[<<0, 0>>]

\* C25: setShader(model) changes only the shading-model coordinate of the
\* selection: the polygon-mode index and the cull-mode index are unchanged,
\* and no pipeline is created, recompiled or destroyed by the call.
C25_SetShaderOnlyShader ==
    [][shader' # shader =>
          /\ polygon_mode' = polygon_mode
          /\ culling_mode' = culling_mode
          /\ matrix' = matrix
          /\ pipelines_created' = pipelines_created
          /\ pipelines_destroyed' = pipelines_destroyed]_vars

\* the shading model has been changed with the modes away from their
\* initial values
C25_Witness ==
    /\ matrix_pc = "constructed"
    /\ shader = "Box"
    /\ polygon_mode = 1
    /\ culling_mode = 2

\* the step of a frame in which glfwPollEvents() runs, after Input::update()
PollStep == pc = "poll_events" /\ pc' = "frame_update"

\* C27: Input::update() runs before glfwPollEvents() in every frame, and
\* after the polling of a frame isKeyTap(key) is true exactly if the key was
\* up when the frame's update ran and is down after the polling; a key that
\* was down at the update and is still down (a held key) is no tap.
C27_TapIffUpAtUpdateDownAfterPoll ==
    /\ [](pc = "poll_events" => keysPrev = keys)
    /\ [][PollStep =>
             \A k \in Keys :
                 /\ isKeyTap(k)' <=> (~keys[k] /\ keys'[k])
                 /\ (keys[k] /\ keys'[k]) => ~isKeyTap(k)']_vars

\* C27 witness: after the polling of a frame one key is tapped and another,
\* tapped in an earlier frame and held since, is down and no tap.
C27_Witness ==
    /\ pc = "frame_update"
    /\ isKeyTap("F2")
    /\ keys["F1"] /\ keysPrev["F1"]
    /\ presses["F1"] = 1

\* the region of the slot lies inside the element_stride * element_count
\* bytes of the shared uniform buffer
SlotWithinBuffer(range) ==
    /\ range.index < element_count
    /\ ~MulWraps(element_stride, range.index)
    /\ ~AddWraps(range.offset, range.size)
    /\ Le64(Add64(range.offset, range.size),
            Mul64(element_stride, element_count))

\* C28: every instance of the scene gets a slot index below the element
\* count of the shared uniform buffer, and offset + size of its slot is at
\* most element_stride * element_count: for the slots main() asks for, one
\* per instance of createScene(), and for the slot every registered instance
\* holds.
C28_SlotsWithinBuffer ==
    sub_state = "constructed" =>
        /\ buffer_bytes = Mul64(element_stride, element_count)
        /\ \A index \in 0..(SceneInstanceCount - 1) :
               SlotWithinBuffer(RegisterSlot(index))
        /\ \A i \in 1..Len(instances) :
               IsBound(i) => SlotWithinBuffer(instances[i].uniform_slot)

\* C28 witness: the instances are registered, the last of them in a slot
\* that does not start at offset 0.
C28_Witness ==
    /\ scene_pc = "frames"
    /\ Len(instances) = MaxInstances
    /\ \A i \in 1..Len(instances) : IsBound(i)
    /\ instances[Len(instances)].uniform_slot.index = MaxInstances - 1
    /\ AsInt(instances[Len(instances)].uniform_slot.offset) > 0

EscapeTapObserved == pc = "frame_update" /\ isKeyTap("ESCAPE")

\* every instance of the scene has a mesh of its own
NoSharedMesh ==
    \A i, j \in DOMAIN mesh_instances :
        i # j => mesh_instances[i] # mesh_instances[j]

\* C30: the frame loop terminates on Escape. The frame that sees an Escape
\* tap sets the should-close flag; the flag stays set, and with it set no
\* frame is begun; and the teardown follows: the wait for the idle device,
\* then the destroy pass over trash, then the destruction of the device.
\* Only the second destroy of a mesh that two instances share can end the
\* program inside the destroy pass.
C30_EscapeEndsLoop ==
    /\ [][(EscapeTapObserved /\ pc' # pc) => window_should_close']_vars
    /\ [][window_should_close =>
             /\ window_should_close'
             /\ ~(pc = "loop_test" /\ pc' = "poll_events")]_vars
    /\ [](pc = "aborted" => ~NoSharedMesh)
    /\ [](device_destroyed =>
             /\ idle_confirmed
             /\ trash_index > Len(trash))
    /\ (EscapeTapObserved ~> (device_destroyed \/ pc = "aborted"))

\* C30 witness: the program has ended with the device destroyed, and the
\* last frame it ran was one that saw an Escape tap.
C30_Witness ==
    /\ pc = "done"
    /\ device_destroyed
    /\ isKeyTap("ESCAPE")
    /\ window_should_close
    /\ ~run_headless
    /\ NoSharedMesh
    /\ Len(mesh_instances) > 1

=============================================================================
